---------------------------- MODULE Spec2Model ----------------------------
(***************************************************************************)
(* A model of the hybrid candidate-ranking pipeline of the clinical        *)
(* disease matcher (src/api/src): HybridOrchestrator.search with its       *)
(* merge, rerank, conflict and response-assembly steps, LLMReranker and    *)
(* LLMQueryGenerator.                                                      *)
(*                                                                         *)
(* Representation.                                                         *)
(*  - A Python string that is an identifier is a sequence of tokens        *)
(*    (<<"OMIM:", "100">> is "OMIM:100"); None and "" are both <<>>, the   *)
(*    two falsy values the code never tells apart.  Python's `a in b` on   *)
(*    strings is contiguous-subsequence on token sequences.                *)
(*  - A score is an integer number of 1/Scale units, so that every         *)
(*    product the code forms on the modelled inputs is exact.              *)
(*  - A gene list is a set of gene symbols.                                *)
(***************************************************************************)
EXTENDS Integers, Sequences, FiniteSets, TLC

VARIABLES pc,                 \* control point of the operation in progress
          query,              \* the HybridQuery being handled
          search_results,     \* <<method, candidates>> pairs, in dict insertion order
          merged_candidates,  \* result of merge_candidates
          judge,              \* what the judge (LLM) answers to a rerank call
          reranking_result,   \* RerankingResult of LLMReranker.rerank_candidates
          response,           \* what HybridOrchestrator.search hands to its caller
          calls,              \* number of calls made to each collaborator
          attempt_number,     \* tenacity's attempt count of the decorated call in progress
          translator,         \* what the translation service (LLM) answered last
          working_gene,       \* local of search: query.gene or the variant's gene
          queries,            \* local of _search_by_text: the generated queries
          tasks,              \* the search tasks handed to asyncio.gather
          call_args,          \* arguments of the function a specification applies
          call_result,        \* what that function returned
          df,                 \* ClinicalDataProcessor: the DataFrame read from the file
          max_concurrent,     \* ClinicalDataProcessor.max_concurrent
          semaphore,          \* value of ClinicalDataProcessor.semaphore
          rows_to_process,    \* local of process_excel: result of _prepare_rows
          single_tasks,       \* the _process_single coroutines handed to asyncio.gather
          posted,             \* number of POSTs sent to the API for each row
          batch_results,      \* local of process_excel: result of _process_batch
          output,             \* the four columns _add_results_to_dataframe adds
          store,              \* the objects in memory: store[0] those built at start-up,
                              \* store[r] those request r created
          handlers,           \* the locals of every search call in progress
          shares_lists        \* whether a model keeps the list it is constructed with

vars == <<pc, query, search_results, merged_candidates, judge,
          reranking_result, response, calls, attempt_number, translator,
          working_gene, queries, tasks, call_args, call_result,
          df, max_concurrent, semaphore, rows_to_process, single_tasks, posted,
          batch_results, output, store, handlers, shares_lists>>

\* the objects of the service and the requests it is handling together
shared_vars == <<store, handlers, shares_lists>>

\* no object is tracked
SharedUnset ==
    /\ store = <<>>
    /\ handlers = <<>>
    /\ shares_lists = FALSE

\* the state of the command-line batch processor
batch_vars == <<df, max_concurrent, semaphore, rows_to_process, single_tasks,
                posted, batch_results, output>>

\* no batch is being processed
BatchUnset ==
    /\ df = <<>>
    /\ max_concurrent = 0
    /\ semaphore = 0
    /\ rows_to_process = <<>>
    /\ single_tasks = <<>>
    /\ posted = <<>>
    /\ batch_results = <<>>
    /\ output = <<>>

-----------------------------------------------------------------------------
(* Scalars *)

Scale == 1000 * 1000          \* score 1.0

NoneId == <<>>                \* None / "" (falsy)

gene_weight_tenths == 6       \* Settings.gene_weight = 0.6
bm25_weight_tenths == 4       \* Settings.bm25_weight = 0.4

Min(a, b) == IF a <= b THEN a ELSE b
Max(a, b) == IF a >= b THEN a ELSE b

Range(s) == {s[i] : i \in 1..Len(s)}

SeqsUpTo(S, n) == UNION {[1..k -> S] : k \in 0..n}

RECURSIVE SumSet(_, _)
\* sum of f[x] over the finite set S
SumSet(S, f) ==
    IF S = {} THEN 0
    ELSE LET x == CHOOSE y \in S : TRUE
         IN  f[x] + SumSet(S \ {x}, f)

\* str.lower() on the names of the model
Lower(name) ==
    CASE name = "Alpha" -> "alpha"
      [] name = "Beta"  -> "beta"
      [] name = "BETA"  -> "beta"
      [] name = "Gamma" -> "gamma"
      [] name = "Delta" -> "delta"
      [] OTHER          -> name

-----------------------------------------------------------------------------
(* DiseaseCandidate (models.py) *)

DiseaseCandidate(omim, mondo, name, genes, score, source) ==
    [omim_id |-> omim, mondo_id |-> mondo, name |-> name,
     genes |-> genes, score |-> score, source |-> source]

\* HybridOrchestrator._get_disease_key
_get_disease_key(candidate) ==
    IF candidate.omim_id # NoneId THEN <<"OMIM:">> \o candidate.omim_id
    ELSE IF candidate.mondo_id # NoneId THEN candidate.mondo_id
    ELSE <<"NAME:", Lower(candidate.name)>>

\* list.sort(key=score, reverse=True): stable, descending
RECURSIVE InsertDesc(_, _)
InsertDesc(sorted, c) ==
    IF sorted = <<>> THEN <<c>>
    ELSE LET last == sorted[Len(sorted)]
         IN  IF last.score >= c.score THEN Append(sorted, c)
             ELSE Append(InsertDesc(SubSeq(sorted, 1, Len(sorted) - 1), c), last)

RECURSIVE SortByScoreDesc(_)
SortByScoreDesc(s) ==
    IF s = <<>> THEN <<>>
    ELSE InsertDesc(SortByScoreDesc(SubSeq(s, 1, Len(s) - 1)), s[Len(s)])

-----------------------------------------------------------------------------
(* HybridOrchestrator.merge_candidates *)

\* the weight of a search method, in tenths
method_weight(method) ==
    IF method = "gene_lookup" THEN gene_weight_tenths ELSE bm25_weight_tenths

\* candidate.score * method_weight
weighted_score(candidate, method) ==
    (candidate.score * method_weight(method)) \div 10

\* the entries of search_results in iteration order: <<method, candidate>>
RECURSIVE FlatEntries(_)
FlatEntries(sr) ==
    IF sr = <<>> THEN <<>>
    ELSE LET method == sr[1][1]
             cands  == sr[1][2]
         IN  [i \in 1..Len(cands) |-> <<method, cands[i]>>]
               \o FlatEntries(Tail(sr))

\* lines 276-286: keep the first candidate of a key, reconcile with later ones
ReconcileInfo(existing, candidate) ==
    [existing EXCEPT
       !.omim_id  = IF existing.omim_id = NoneId /\ candidate.omim_id # NoneId
                    THEN candidate.omim_id ELSE @,
       !.mondo_id = IF existing.mondo_id = NoneId /\ candidate.mondo_id # NoneId
                    THEN candidate.mondo_id ELSE @,
       !.genes    = existing.genes \cup candidate.genes]

\* lines 260-286: one pass over all entries, building disease_scores and
\* disease_info (both dicts keep the insertion order of their keys)
RECURSIVE GroupEntries(_, _)
GroupEntries(entries, acc) ==
    IF entries = <<>> THEN acc
    ELSE LET method == entries[1][1]
             cand   == entries[1][2]
             key    == _get_disease_key(cand)
             item   == [method |-> method, score |-> cand.score,
                        weighted_score |-> weighted_score(cand, method)]
             seen   == key \in DOMAIN acc.disease_scores
             scores == IF seen THEN Append(acc.disease_scores[key], item)
                       ELSE <<item>>
             info   == IF seen THEN ReconcileInfo(acc.disease_info[key], cand)
                       ELSE cand
             acc2   == [keys |-> IF seen THEN acc.keys ELSE Append(acc.keys, key),
                        disease_scores |->
                            [k \in DOMAIN acc.disease_scores \cup {key} |->
                                IF k = key THEN scores ELSE acc.disease_scores[k]],
                        disease_info |->
                            [k \in DOMAIN acc.disease_info \cup {key} |->
                                IF k = key THEN info ELSE acc.disease_info[k]]]
         IN  GroupEntries(Tail(entries), acc2)

EmptyGroups == [keys |-> <<>>, disease_scores |-> <<>>, disease_info |-> <<>>]

RECURSIVE SumWeighted(_)
SumWeighted(scores) ==
    IF scores = <<>> THEN 0
    ELSE scores[1].weighted_score + SumWeighted(Tail(scores))

\* len(set(s["method"] for s in scores))
method_count_mut(scores) == Len(scores)
method_count(scores) == Cardinality({scores[i].method : i \in 1..Len(scores)})

\* min(total_weighted_score, 1.0)
clamp_score_mut(total) == total
clamp_score(total) == Min(total, Scale)

\* lines 291-301
final_score_mut(scores) == clamp_score(SumWeighted(scores))
final_score(scores) ==
    LET total == SumWeighted(scores)
        n     == method_count(scores)
        bonus == IF n > 1 THEN (total * (10 + (n - 1))) \div 10 ELSE total
    IN  clamp_score(bonus)

merge_candidates(sr) ==
    LET g == GroupEntries(FlatEntries(sr), EmptyGroups)
        merged == [i \in 1..Len(g.keys) |->
                      LET key == g.keys[i]
                          c   == g.disease_info[key]
                      IN  DiseaseCandidate(c.omim_id, c.mondo_id, c.name, c.genes,
                                           final_score(g.disease_scores[key]),
                                           "combined")]
    IN  SortByScoreDesc(merged)

-----------------------------------------------------------------------------
(* LLMReranker (llm_reranker.py)                                           *)
(*                                                                         *)
(* The judge's answer is                                                   *)
(*   [kind: "call_error" (the API call raised) | "not_json" (json.loads    *)
(*          raises) | "json",                                              *)
(*    shape: "flat" (ranked_candidates) | "steps" (final_decision and      *)
(*          candidates_evaluation are both present),                       *)
(*    items: the entries of ranked_candidates / candidates_evaluation,     *)
(*    conflicts: the entries of "conflicts"].                              *)
(* An item is [id, kind, n]: id is item.get("id", ""); kind tells what the *)
(* item holds under "adjusted_score" (flat) or "rank" (steps): "absent",   *)
(* "number" (n), "null" (JSON null) or "not_a_dict" (the entry is no JSON  *)
(* object).  match_details and the clarification flags are not modelled.   *)
(***************************************************************************)

\* Python's `a in b` for strings
IsSubstr(a, b) ==
    \E o \in 0..(Len(b) - Len(a)) : SubSeq(b, o + 1, o + Len(a)) = a

\* LLMReranker._get_candidate_id
_get_candidate_id(candidate) ==
    IF candidate.omim_id # NoneId THEN <<"OMIM:">> \o candidate.omim_id
    ELSE IF candidate.mondo_id # NoneId THEN candidate.mondo_id
    ELSE <<candidate.name>>

\* a dict: its keys in insertion order, and the value of every key
EmptyDict == [keys |-> <<>>, val |-> <<>>]

\* lines 262-268: the keys a candidate is filed under, in the order of the code
candidate_keys(c) ==
    (IF c.omim_id # NoneId THEN << <<"OMIM:">> \o c.omim_id, c.omim_id >> ELSE <<>>)
       \o (IF c.mondo_id # NoneId THEN <<c.mondo_id>> ELSE <<>>)

\* lines 262-268: the loop over the candidates, on top of the dict d; a key is
\* placed where its first candidate put it and holds its last candidate
candidates_dict(original_candidates, d) ==
    LET n       == Len(original_candidates)
        filed(i) == Range(candidate_keys(original_candidates[i]))
        first(k) == CHOOSE i \in 1..n : k \in filed(i) /\ \A j \in 1..(i - 1) : k \notin filed(j)
        last(k)  == CHOOSE i \in 1..n : k \in filed(i) /\ \A j \in (i + 1)..n : k \notin filed(j)
        fresh(i) == SelectSeq(candidate_keys(original_candidates[i]),
                              LAMBDA k : k \notin DOMAIN d.val /\ first(k) = i)
        new_keys[i \in 0..n] == IF i = 0 THEN <<>> ELSE new_keys[i - 1] \o fresh(i)
        all      == DOMAIN d.val \cup UNION {filed(i) : i \in 1..n}
    IN  [keys |-> d.keys \o new_keys[n],
         val  |-> [k \in all |->
                     IF \E i \in 1..n : k \in filed(i)
                     THEN original_candidates[last(k)] ELSE d.val[k]]]

\* lines 314-322 and 368-376: exact key, else the first key that contains the id
\* or is contained in it; <<>> stands for `candidate = None`
PartialKeys(d, candidate_id) ==
    {i \in 1..Len(d.keys) :
        IsSubstr(candidate_id, d.keys[i]) \/ IsSubstr(d.keys[i], candidate_id)}

find_candidate_mut(d, candidate_id) ==
    IF candidate_id \in DOMAIN d.val THEN <<d.val[candidate_id]>> ELSE <<>>
find_candidate(d, candidate_id) ==
    IF candidate_id \in DOMAIN d.val THEN <<d.val[candidate_id]>>
    ELSE LET hits == PartialKeys(d, candidate_id)
         IN  IF hits = {} THEN <<>>
             ELSE <<d.val[d.keys[CHOOSE i \in hits : \A j \in hits : i <= j]]>>

\* the result of a loop that may raise
Raised    == [raised |-> TRUE, ranked |-> <<>>]
Ranked(r) == [raised |-> FALSE, ranked |-> r]

\* lines 364-398: the flat shape
RECURSIVE ranked_flat(_, _, _)
ranked_flat(items, d, ranked) ==
    IF items = <<>> THEN Ranked(ranked)
    ELSE LET item == items[1]
             found == find_candidate(d, item.id)
         IN  IF item.kind = "not_a_dict" THEN Raised
             ELSE IF found = <<>> THEN ranked_flat(Tail(items), d, ranked)
             ELSE IF item.kind = "null" THEN Raised
             ELSE LET adjusted_score == IF item.kind = "number" THEN item.n
                                        ELSE found[1].score
                  IN  ranked_flat(Tail(items), d,
                          Append(ranked, [found[1] EXCEPT !.score = adjusted_score]))

\* x.get('rank', 999), the key of the sort in line 308
RankKey(item) == IF item.kind = "number" THEN item.n ELSE 999

\* sorted(candidates_eval, key=rank): stable, ascending
RECURSIVE InsertByRank(_, _)
InsertByRank(sorted, item) ==
    IF sorted = <<>> THEN <<item>>
    ELSE LET last == sorted[Len(sorted)]
         IN  IF RankKey(last) <= RankKey(item) THEN Append(sorted, item)
             ELSE Append(InsertByRank(SubSeq(sorted, 1, Len(sorted) - 1), item), last)

RECURSIVE SortByRank(_)
SortByRank(items) ==
    IF items = <<>> THEN <<>>
    ELSE InsertByRank(SortByRank(SubSeq(items, 1, Len(items) - 1)), items[Len(items)])

\* max(0.1, 1.1 - rank * 0.1), raised to 0.95 for the best match at rank 1
rank_score(rank, is_best) ==
    LET adjusted_score == Max(Scale \div 10, ((11 - rank) * Scale) \div 10)
    IN  IF rank = 1 /\ is_best THEN Max(adjusted_score, (95 * Scale) \div 100)
        ELSE adjusted_score

\* lines 310-361: the step-by-step shape, over the sorted items
RECURSIVE ranked_steps(_, _, _, _)
ranked_steps(items, d, best_match_id, ranked) ==
    IF items = <<>> THEN Ranked(ranked)
    ELSE LET item == items[1]
             found == find_candidate(d, item.id)
         IN  IF found = <<>> THEN ranked_steps(Tail(items), d, best_match_id, ranked)
             ELSE IF item.kind = "null" THEN Raised
             ELSE LET rank == IF item.kind = "number" THEN item.n ELSE 10
                      adjusted_score == rank_score(rank, item.id = best_match_id)
                  IN  ranked_steps(Tail(items), d, best_match_id,
                          Append(ranked, [found[1] EXCEPT !.score = adjusted_score]))

\* lines 304-361: sorting raises on an entry that is no object, and on a null
\* rank as soon as there is something to compare it with
ranked_by_steps(items, d, best_match_id) ==
    IF \E i \in 1..Len(items) : items[i].kind = "not_a_dict" THEN Raised
    ELSE IF Len(items) >= 2 /\ \E i \in 1..Len(items) : items[i].kind = "null"
         THEN Raised
    ELSE ranked_steps(SortByRank(items), d, best_match_id, <<>>)

\* lines 400-404: the candidates the judge left out, in their original order
append_unranked_mut(ranked, original_candidates) == ranked
append_unranked(ranked, original_candidates) ==
    LET ranked_ids == {_get_candidate_id(ranked[i]) : i \in 1..Len(ranked)}
    IN  ranked \o SelectSeq(original_candidates,
                            LAMBDA c : _get_candidate_id(c) \notin ranked_ids)

\* lines 407-417: Conflict(...) raises on a type outside ConflictType and on a
\* severity outside [0, 1]
ConflictValid(conflict_data) ==
    /\ conflict_data.type_ok
    /\ conflict_data.severity >= 0
    /\ conflict_data.severity <= Scale

Conflict(conflict_data) ==
    [severity |-> conflict_data.severity, found |-> conflict_data.found]

RerankingResult(ranked, reasoning, conflicts) ==
    [ranked_candidates |-> ranked, reasoning |-> reasoning,
     conflicts_detected |-> conflicts]

\* lines 426-435
parse_failed(original_candidates) ==
    RerankingResult(original_candidates, "Failed to parse LLM response", <<>>)

_parse_llm_response(content, original_candidates) ==
    IF content.kind = "not_json" THEN parse_failed(original_candidates)
    ELSE
      LET d == candidates_dict(original_candidates, EmptyDict)
          r == IF content.shape = "steps"
               THEN ranked_by_steps(content.items, d, content.best_match_id)
               ELSE ranked_flat(content.items, d, <<>>)
      IN  IF r.raised \/ \E i \in 1..Len(content.conflicts) :
                              ~ConflictValid(content.conflicts[i])
          THEN parse_failed(original_candidates)
          ELSE RerankingResult(
                   append_unranked(r.ranked, original_candidates),
                   "judge reasoning",
                   [i \in 1..Len(content.conflicts) |-> Conflict(content.conflicts[i])])

\* what one run of a function body ends with: a value, or an exception
Return(v) == [raised |-> FALSE, value |-> v]
Raise     == [raised |-> TRUE, value |-> [kind |-> "unset"]]

\* lines 143-150: `except Exception` around the whole body
rerank_except_mut(candidates) == Raise
rerank_except(candidates) ==
    Return(RerankingResult(candidates, "LLM reranking failed", <<>>))

\* lines 100-150: one run of the function body
rerank_candidates(candidates, reply) ==
    IF candidates = <<>>
    THEN Return(RerankingResult(<<>>, "No candidates to rerank", <<>>))
    ELSE IF reply.kind = "call_error" THEN rerank_except(candidates)
    ELSE Return(_parse_llm_response(reply, candidates))

\* @retry(stop=stop_after_attempt(3), ...) of lines 96-99: tenacity runs the
\* body again only when it raised, and gives up at the third attempt
stop_after_attempt == 3

\* what the decorated call does after an attempt that ended with `outcome`
AfterAttempt(outcome, attempt) ==
    IF ~outcome.raised THEN "return"
    ELSE IF attempt >= stop_after_attempt THEN "raise"
    ELSE "retry"

-----------------------------------------------------------------------------
(* Values of the variables an operation does not use *)

NoQuery    == [text |-> "unset"]
NoJudge    == [kind |-> "unset"]
NoResult   == [kind |-> "unset"]
NoResponse == [kind |-> "unset"]
NoCalls    == [gene_lookup |-> 0, bm25 |-> 0, translation |-> 0, judge |-> 0]
NoReply    == [kind |-> "unset"]
NoGene     == ""
IdleTask   == [status |-> "none", result |-> <<>>]
NoTasks    == [gene_lookup |-> IdleTask, bm25 |-> IdleTask]
NoArgs     == [kind |-> "unset"]
NoReturn   == [kind |-> "unset"]

-----------------------------------------------------------------------------
(* merge_candidates as a pure function: the inputs it is applied to *)

MaxEntries == 3               \* candidates in all sources of one merge together

\* the registry's cross-reference of the model: OMIM 100 and MONDO:7 are the
\* same disease (Alpha); Beta is a disease known by its name only
Omim100 == <<"100">>
Mondo7  == <<"MONDO:", "7">>

\* (omim_id, mondo_id, name, genes) of the candidates a source may return
Identities ==
    { <<Omim100, NoneId, "Alpha", {"G1"}>>,
      <<NoneId, Mondo7, "Alpha", {"G2"}>>,
      <<Omim100, Mondo7, "Alpha", {"G1", "G3"}>>,
      <<NoneId, NoneId, "Beta", {"G1"}>>,
      <<NoneId, NoneId, "BETA", {"G2"}>> }

\* 0.40 and 1.50 (a score above 1.0: DiseaseCandidate.score is unbounded)
InputScores == { 400000, 1500000 }
Methods     == { "gene_lookup", "bm25", "semantic" }

SourceCandidates(method) ==
    { DiseaseCandidate(id[1], id[2], id[3], id[4], s, method) :
        id \in Identities, s \in InputScores }

MergeEntries == UNION { {<<m, c>> : c \in SourceCandidates(m)} : m \in Methods }

\* the dict {method: [candidates]} a sequence of entries builds
RECURSIVE AsSearchResults(_, _)
AsSearchResults(flat, sr) ==
    IF flat = <<>> THEN sr
    ELSE LET m == flat[1][1]
             c == flat[1][2]
             at == {i \in 1..Len(sr) : sr[i][1] = m}
         IN  AsSearchResults(Tail(flat),
                IF at = {} THEN Append(sr, <<m, <<c>>>>)
                ELSE [i \in 1..Len(sr) |->
                        IF i \in at THEN <<m, Append(sr[i][2], c)>> ELSE sr[i]])


InitMerge ==
    /\ pc = "merge_call"
    /\ \E k \in 0..MaxEntries : \E f \in [1..k -> MergeEntries] :
          search_results = AsSearchResults(f, <<>>)
    /\ merged_candidates = <<>>
    /\ query = NoQuery
    /\ judge = NoJudge
    /\ reranking_result = NoResult
    /\ response = NoResponse
    /\ calls = NoCalls
    /\ attempt_number = 0
    /\ translator = NoReply
    /\ working_gene = NoGene
    /\ queries = <<>>
    /\ tasks = NoTasks
    /\ call_args = NoArgs
    /\ BatchUnset
    /\ SharedUnset
    /\ call_result = NoReturn

Merge ==
    /\ pc = "merge_call"
    /\ merged_candidates' = merge_candidates(search_results)
    /\ pc' = "merge_done"
    /\ UNCHANGED <<shared_vars, batch_vars, call_args, call_result, query, search_results, judge, reranking_result, response, calls,
                   attempt_number, translator, working_gene, queries, tasks>>

NextMerge == Merge

SpecMerge == InitMerge /\ [][NextMerge]_vars

-----------------------------------------------------------------------------
(* Claims about merge_candidates, checked under SpecMerge *)

\* positions <<i, j>> of the candidates in search_results
EntryIdx == {p \in (1..Len(search_results)) \X (1..MaxEntries + 1) :
                p[2] <= Len(search_results[p[1]][2])}
EntryMethod(p) == search_results[p[1]][1]
EntryCand(p)   == search_results[p[1]][2][p[2]]
InputKeys      == {_get_disease_key(EntryCand(p)) : p \in EntryIdx}
EntriesOfKey(k) == {p \in EntryIdx : _get_disease_key(EntryCand(p)) = k}
SourcesOfKey(k) == {EntryMethod(p) : p \in EntriesOfKey(k)}

\* source_score * source_weight as the specification states it
StatedWeight(m) == IF m = "gene_lookup" THEN 6 ELSE 4
StatedSum(k) ==
    SumSet(EntriesOfKey(k),
           [p \in EntryIdx |-> (EntryCand(p).score * StatedWeight(EntryMethod(p))) \div 10])
StatedScore(k) ==
    Min(Scale, (StatedSum(k) * (10 + (Cardinality(SourcesOfKey(k)) - 1))) \div 10)

\* C8: every disease key of the input has exactly one merged candidate, and its
\* score is min(1.0, S * (1 + 0.1 * (n - 1))) with S the sum of
\* source_score * source_weight over the entries found for the key and n the
\* number of distinct sources that found it.
C8_MergedScoreFormula ==
    pc = "merge_done" =>
      /\ Len(merged_candidates) = Cardinality(InputKeys)
      /\ \A k \in InputKeys :
            \E i \in 1..Len(merged_candidates) :
               /\ _get_disease_key(merged_candidates[i]) = k
               /\ merged_candidates[i].score = StatedScore(k)

\* a disease found by two sources, once by each, whose bonus score stays below 1.0,
\* and another found by three sources
C8_Witness ==
    /\ pc = "merge_done"
    /\ \E k \in InputKeys :
          /\ Cardinality(SourcesOfKey(k)) = 2
          /\ Cardinality(EntriesOfKey(k)) = 2
          /\ StatedScore(k) = (StatedSum(k) * 11) \div 10
          /\ StatedScore(k) < Scale

\* C9: every merged candidate's final score lies in [0, 1], however large the
\* (non-negative) input scores are.
C9_MergedScoreInUnitInterval ==
    pc = "merge_done" =>
      \A i \in 1..Len(merged_candidates) :
         /\ merged_candidates[i].score >= 0
         /\ merged_candidates[i].score <= Scale

\* an input score above 1.0 whose weighted sum exceeds 1.0 was clamped to 1.0
C9_Witness ==
    /\ pc = "merge_done"
    /\ \E k \in InputKeys :
          /\ \E p \in EntriesOfKey(k) : EntryCand(p).score > Scale
          /\ (StatedSum(k) * (10 + (Cardinality(SourcesOfKey(k)) - 1))) \div 10 > Scale
          /\ \E i \in 1..Len(merged_candidates) :
                /\ _get_disease_key(merged_candidates[i]) = k
                /\ merged_candidates[i].score = Scale

\* C10: when one source returns the disease with only its OMIM id and another
\* source returns it with only its MONDO id, the merge holds a single candidate
\* for the disease, carrying both identifiers and the union of the gene lists.
C10_PartialIdentifiersMerge ==
    pc = "merge_done" =>
      \A p1, p2 \in EntryIdx :
         LET c1 == EntryCand(p1)
             c2 == EntryCand(p2)
             hits == {i \in 1..Len(merged_candidates) :
                         \/ merged_candidates[i].omim_id = Omim100
                         \/ merged_candidates[i].mondo_id = Mondo7}
         IN  (/\ EntryMethod(p1) # EntryMethod(p2)
              /\ c1.omim_id = Omim100 /\ c1.mondo_id = NoneId
              /\ c2.omim_id = NoneId  /\ c2.mondo_id = Mondo7)
             => /\ Cardinality(hits) = 1
                /\ \A i \in hits :
                      /\ merged_candidates[i].omim_id = Omim100
                      /\ merged_candidates[i].mondo_id = Mondo7
                      /\ (c1.genes \cup c2.genes) \subseteq merged_candidates[i].genes

-----------------------------------------------------------------------------
(* merge_candidates of one list given as two sources *)

MaxList == 3                  \* candidates in the list that is merged with itself

\* 0.30, 0.50 and 0.95
ListScores == { 300000, 500000, 950000 }

ListCandidates ==
    { DiseaseCandidate(id[1], id[2], id[3], id[4], s, "bm25") :
        id \in Identities, s \in ListScores }

\* the same list under both method names
InitIdem ==
    /\ pc = "merge_call"
    /\ \E k \in 0..MaxList : \E L \in [1..k -> ListCandidates] :
          search_results = << <<"gene_lookup", L>>, <<"bm25", L>> >>
    /\ merged_candidates = <<>>
    /\ query = NoQuery
    /\ judge = NoJudge
    /\ reranking_result = NoResult
    /\ response = NoResponse
    /\ calls = NoCalls
    /\ attempt_number = 0
    /\ translator = NoReply
    /\ working_gene = NoGene
    /\ queries = <<>>
    /\ tasks = NoTasks
    /\ call_args = NoArgs
    /\ BatchUnset
    /\ SharedUnset
    /\ call_result = NoReturn

SpecIdem == InitIdem /\ [][NextMerge]_vars

\* the merge of the list as a single source, under either method name
SingleMerge(method) == merge_candidates(<< <<method, search_results[1][2]>> >>)

KeysOf(cands) == [i \in 1..Len(cands) |-> _get_disease_key(cands[i])]

ScoreOfKey(cands, k) ==
    cands[CHOOSE i \in 1..Len(cands) : _get_disease_key(cands[i]) = k].score

PosOfKey(cands, k) == CHOOSE i \in 1..Len(cands) : _get_disease_key(cands[i]) = k

\* C11 as stated: the diseases come in the same order from the merge of the
\* list with itself as two sources as from its merge as a single source.
C11_SameOrderAlways ==
    pc = "merge_done" =>
       \A method \in {"gene_lookup", "bm25"} :
          KeysOf(merged_candidates) = KeysOf(SingleMerge(method))

\* C11 as amended: both merges hold the same diseases; a disease with a
\* strictly higher two-source score stands before the other in the
\* single-source merge; the two-source score is the sum of the two
\* single-source scores times the bonus 1.1, clamped to 1.0; and when no
\* two-source score reaches the clamp the order of the diseases is the same.
C11_OrderKeptUpToClamp ==
    pc = "merge_done" =>
       \A method \in {"gene_lookup", "bm25"} :
          LET single == SingleMerge(method)
              keys   == Range(KeysOf(merged_candidates))
          IN  /\ Len(single) = Len(merged_candidates)
              /\ Range(KeysOf(single)) = keys
              /\ \A x, y \in keys :
                    ScoreOfKey(merged_candidates, x) > ScoreOfKey(merged_candidates, y)
                       => PosOfKey(single, x) < PosOfKey(single, y)
              /\ \A x \in keys :
                    ScoreOfKey(merged_candidates, x) =
                       Min(Scale,
                           (11 * (ScoreOfKey(SingleMerge("gene_lookup"), x)
                                    + ScoreOfKey(SingleMerge("bm25"), x))) \div 10)
              /\ (\A i \in 1..Len(merged_candidates) : merged_candidates[i].score < Scale)
                    => KeysOf(merged_candidates) = KeysOf(single)

\* a list whose second disease outscores the first, none reaching the clamp:
\* both merges reorder it the same way, with the bonus on the scores
C11_Witness ==
    /\ pc = "merge_done"
    /\ Len(merged_candidates) = 2
    /\ Len(search_results[1][2]) = 2
    /\ search_results[1][2][1].score < search_results[1][2][2].score
    /\ merged_candidates[1].score < Scale
    /\ _get_disease_key(merged_candidates[1]) = _get_disease_key(search_results[1][2][2])
    /\ KeysOf(merged_candidates) = KeysOf(SingleMerge("gene_lookup"))
    /\ merged_candidates[1].score = (11 * search_results[1][2][2].score) \div 10

-----------------------------------------------------------------------------
(* rerank_candidates on its own: the inputs it is applied to *)

MaxCands == 3                 \* candidates handed to the judge
MaxItems == 2                 \* entries in the judge's list

\* merged candidates as merge_candidates returns them: distinct disease keys,
\* source "combined", scores descending (0.9, 0.8, 0.7, 0.6)
Omim200 == <<"200">>
Mondo9  == <<"MONDO:", "9">>
RerankPool ==
    << DiseaseCandidate(Omim100, Mondo7, "Alpha", {"G1"}, 900000, "combined"),
       DiseaseCandidate(Omim200, NoneId, "Beta", {"G2"}, 800000, "combined"),
       DiseaseCandidate(NoneId, Mondo9, "Gamma", {"G1", "G3"}, 700000, "combined"),
       DiseaseCandidate(NoneId, NoneId, "Delta", {"G2"}, 600000, "combined") >>

\* the subsequences of RerankPool of at most MaxCands candidates
SubPool(S) == SelectSeq(RerankPool, LAMBDA c : c \in S)
CandidateLists ==
    {SubPool(S) : S \in {T \in SUBSET Range(RerankPool) : Cardinality(T) <= MaxCands}}

\* ids the judge may write: an exact id, an id followed by a remark (found by
\* partial match), a MONDO id, and no id at all
JudgeIds == { <<"OMIM:", "100">>, <<"OMIM:", "200", " (Beta)">>, Mondo9, NoneId }

Item(id, kind, n) == [id |-> id, kind |-> kind, n |-> n]
NotADict == Item(NoneId, "not_a_dict", 0)

ItemsOf(numbers) ==
    {Item(id, "number", n) : id \in JudgeIds, n \in numbers}
      \cup {Item(id, k, 0) : id \in JudgeIds, k \in {"absent", "null"}}
      \cup {NotADict}

\* the "conflicts" of a reply: none, a valid one, one with an unknown type
ConflictData(type_ok, severity, found) ==
    [type_ok |-> type_ok, severity |-> severity, found |-> found]
ConflictLists ==
    { <<>>, <<ConflictData(TRUE, 500000, "G1")>>, <<ConflictData(FALSE, 500000, "G1")>> }

JsonReply(shape, items, conflicts) ==
    [kind |-> "json", shape |-> shape, items |-> items, conflicts |-> conflicts,
     best_match_id |-> IF items = <<>> THEN NoneId ELSE items[1].id]
CallError == [kind |-> "call_error", shape |-> "flat", items |-> <<>>,
              conflicts |-> <<>>, best_match_id |-> NoneId]
NotJson   == [kind |-> "not_json", shape |-> "flat", items |-> <<>>,
              conflicts |-> <<>>, best_match_id |-> NoneId]

\* adjusted_score 0.95 and 1.5 (flat); rank 0 and 1 (steps)
JudgeReplies ==
    {CallError, NotJson}
      \cup {JsonReply("flat", i, c) :
              i \in SeqsUpTo(ItemsOf({950000, 1500000}), MaxItems), c \in ConflictLists}
      \cup {JsonReply("steps", i, c) :
              i \in SeqsUpTo(ItemsOf({0, 1}), MaxItems), c \in ConflictLists}

\* candidates=merged_candidates[:20]
judge_limit == 20
rerank_input_mut == merged_candidates
rerank_input == SubSeq(merged_candidates, 1, Min(judge_limit, Len(merged_candidates)))

InitRerank ==
    /\ pc = "rerank_call"
    /\ merged_candidates \in CandidateLists
    /\ judge \in JudgeReplies
    /\ reranking_result = NoResult
    /\ query = NoQuery
    /\ search_results = <<>>
    /\ response = NoResponse
    /\ calls = NoCalls
    /\ attempt_number = 0
    /\ translator = NoReply
    /\ working_gene = NoGene
    /\ queries = <<>>
    /\ tasks = NoTasks
    /\ call_args = NoArgs
    /\ BatchUnset
    /\ SharedUnset
    /\ call_result = NoReturn

\* one attempt of the decorated rerank_candidates
RerankAttempt ==
    /\ pc = "rerank_call"
    /\ LET outcome == rerank_candidates(rerank_input, judge)
           next    == AfterAttempt(outcome, attempt_number + 1)
       IN  /\ attempt_number' = attempt_number + 1
           /\ calls' = IF rerank_input = <<>> THEN calls
                       ELSE [calls EXCEPT !.judge = @ + 1]
           /\ pc' = CASE next = "return" -> "rerank_done"
                      [] next = "raise"  -> "rerank_raised"
                      [] OTHER           -> "rerank_call"
           /\ reranking_result' = IF next = "return" THEN outcome.value
                                  ELSE reranking_result
    /\ call_args' = [candidates |-> rerank_input]
    /\ UNCHANGED <<shared_vars, batch_vars, call_result, query, search_results, merged_candidates, judge, response,
                   translator, working_gene, queries, tasks>>

NextRerank == RerankAttempt

SpecRerank == InitRerank /\ [][NextRerank]_vars

-----------------------------------------------------------------------------
(* Claims about rerank_candidates, checked under SpecRerank *)

RerankOut == reranking_result.ranked_candidates

\* the candidates the judge's output mentions: those an entry's id stands for
MentionedIds ==
    IF judge.kind # "json" THEN {}
    ELSE LET d == candidates_dict(rerank_input, EmptyDict)
             named == {i \in 1..Len(judge.items) :
                          /\ judge.items[i].kind # "not_a_dict"
                          /\ find_candidate(d, judge.items[i].id) # <<>>}
         IN  {_get_candidate_id(find_candidate(d, judge.items[i].id)[1]) : i \in named}

IsMentioned(c) == _get_candidate_id(c) \in MentionedIds

NoneMissing ==
    \A i \in 1..Len(rerank_input) :
       \E j \in 1..Len(RerankOut) :
          _get_candidate_id(RerankOut[j]) = _get_candidate_id(rerank_input[i])

UnmentionedUnchanged ==
    SelectSeq(RerankOut, LAMBDA c : ~IsMentioned(c))
      = SelectSeq(rerank_input, LAMBDA c : ~IsMentioned(c))

UnmentionedLast ==
    \A i, j \in 1..Len(RerankOut) :
       i < j => ~(~IsMentioned(RerankOut[i]) /\ IsMentioned(RerankOut[j]))

FailureReasons == {"LLM reranking failed", "Failed to parse LLM response"}

\* C2: the ranked list rerank_candidates returns is as long as the candidate
\* list it was given, whatever the judge answers.
C2_RerankKeepsLength ==
    pc = "rerank_done" => Len(RerankOut) = Len(rerank_input)

JudgeUnusable ==
    \/ judge.kind \in {"call_error", "not_json"}
    \/ /\ judge.kind = "json"
       /\ \/ \E i \in 1..Len(judge.items) : judge.items[i].kind = "not_a_dict"
          \/ \E i \in 1..Len(judge.items) :
                /\ judge.items[i].kind = "null"
                /\ find_candidate(candidates_dict(rerank_input, EmptyDict),
                                  judge.items[i].id) # <<>>
          \/ \E i \in 1..Len(judge.conflicts) : ~judge.conflicts[i].type_ok

\* C4: when the judge call fails or its output cannot be parsed, the rerank
\* returns the input candidates in their order with their scores, no conflicts
\* and the failure in the reasoning field; and the call never raises.
C4_FailedRerankIsNoOp ==
    /\ pc # "rerank_raised"
    /\ (pc = "rerank_done" /\ rerank_input # <<>> /\ JudgeUnusable) =>
          /\ RerankOut = rerank_input
          /\ reranking_result.conflicts_detected = <<>>
          /\ reranking_result.reasoning \in FailureReasons

\* an output that re-scores one candidate, reports a valid conflict and then
\* holds an entry that is no object falls back to the input
C4_Witness ==
    /\ pc = "rerank_done"
    /\ Len(rerank_input) >= 2
    /\ judge.kind = "json"
    /\ Len(judge.items) = 2
    /\ judge.items[1].kind = "number" /\ MentionedIds # {}
    /\ judge.items[2].kind = "not_a_dict"
    /\ Len(judge.conflicts) = 1 /\ judge.conflicts[1].type_ok
    /\ RerankOut = rerank_input
    /\ reranking_result.reasoning = "Failed to parse LLM response"

-----------------------------------------------------------------------------
(* The registries the orchestrator reads: DataLoader and GeneToOmimLookup *)

\* str.upper() on the gene symbols of the model
Upper(gene) ==
    CASE gene = "g2"  -> "G2"
      [] gene = "g1a" -> "G1A"
      [] OTHER        -> gene

Disease(id, name, genes, source) ==
    [id |-> id, name |-> name, genes |-> genes, source |-> source]

OmimDisease(omim_id, name, genes) ==
    [omim_id |-> omim_id, name |-> name, genes |-> genes]

Omim100Full == <<"OMIM:", "100">>
Omim200Full == <<"OMIM:", "200">>

\* DataLoader.diseases, in the order of the search index (disease_ids)
diseases ==
    << Disease(Omim100Full, "Alpha", {"G1"}, "OMIM"),
       Disease(Mondo7, "Alpha", {"G1"}, "MONDO"),
       Disease(Omim200Full, "Beta", {"G2"}, "OMIM"),
       Disease(Mondo9, "Gamma", {"G1", "G3"}, "MONDO") >>

disease_ids == [i \in 1..Len(diseases) |-> diseases[i].id]

\* DataLoader.omim_to_mondo and mondo_to_omim
omim_to_mondo == [k \in {Omim100Full} |-> Mondo7]
mondo_to_omim == [k \in {Mondo7} |-> Omim100Full]

\* DataLoader.gene_to_diseases: ids of the diseases of a gene
loader_gene_to_diseases ==
    [g \in {"G1", "G2"} |->
        IF g = "G1" THEN <<Omim100Full, Mondo7, Mondo9>> ELSE <<Omim200Full>>]

\* a record of genemap2.txt: the gene symbols column, the approved symbol
\* ("-" when the record has none) and the <<omim_id, name>> of its phenotypes
GenemapRow(gene_symbols, approved_symbol, phenotypes) ==
    [gene_symbols |-> gene_symbols, approved_symbol |-> approved_symbol,
     phenotypes |-> phenotypes]

EmptyIndex == [gene_to_diseases |-> <<>>, gene_aliases |-> <<>>]

\* gene_aliases[symbol] = approved: a dict keeps the position of a key it has
AliasPut(aliases, symbol, approved) ==
    IF \E i \in 1..Len(aliases) : aliases[i][1] = symbol
    THEN [i \in 1..Len(aliases) |->
            IF aliases[i][1] = symbol THEN <<symbol, approved>> ELSE aliases[i]]
    ELSE Append(aliases, <<symbol, approved>>)

RECURSIVE AliasPutAll(_, _, _)
AliasPutAll(aliases, symbols, approved) ==
    IF symbols = <<>> THEN aliases
    ELSE AliasPutAll(AliasPut(aliases, Upper(symbols[1]), approved),
                     Tail(symbols), approved)

\* _load_genemap, lines 33-67: one record
LoadRow(index, row) ==
    LET has_approved == row.approved_symbol # "-"
        approved     == Upper(row.approved_symbol)
        all_symbols  == (IF has_approved THEN {approved} ELSE {})
                           \cup {Upper(row.gene_symbols[i]) : i \in 1..Len(row.gene_symbols)}
        found == [i \in 1..Len(row.phenotypes) |->
                    OmimDisease(row.phenotypes[i][1], row.phenotypes[i][2], all_symbols)]
        old   == index.gene_to_diseases
    IN  [gene_aliases |->
            IF has_approved
            THEN AliasPutAll(index.gene_aliases, row.gene_symbols, approved)
            ELSE index.gene_aliases,
         gene_to_diseases |->
            IF row.phenotypes = <<>> THEN old
            ELSE [g \in DOMAIN old \cup all_symbols |->
                    (IF g \in DOMAIN old THEN old[g] ELSE <<>>)
                       \o (IF g \in all_symbols THEN found ELSE <<>>)]]

RECURSIVE _load_genemap(_, _)
_load_genemap(rows, index) ==
    IF rows = <<>> THEN index
    ELSE _load_genemap(Tail(rows), LoadRow(index, rows[1]))

\* the genemap of the model: Alpha under G1 (also written G1A), Beta under G2
genemap_rows ==
    << GenemapRow(<<"G1", "G1A">>, "G1", << <<Omim100, "Alpha">> >>),
       GenemapRow(<<"G2">>, "G2", << <<Omim200, "Beta">> >>) >>

GenemapIndex == _load_genemap(genemap_rows, EmptyIndex)

\* GeneToOmimLookup.gene_to_diseases and gene_aliases (symbol, approved symbol)
lookup_gene_to_diseases == GenemapIndex.gene_to_diseases

gene_aliases == GenemapIndex.gene_aliases

\* str.replace("OMIM:", "")
StripOmim(id) == SelectSeq(id, LAMBDA t : t # "OMIM:")

\* the first occurrence of every omim_id
RECURSIVE UniqueByOmim(_, _)
UniqueByOmim(results, unique) ==
    IF results = <<>> THEN unique
    ELSE UniqueByOmim(Tail(results),
            IF \E i \in 1..Len(unique) : unique[i].omim_id = results[1].omim_id
            THEN unique ELSE Append(unique, results[1]))

DiseasesOfGene(index, g) ==
    IF g \in DOMAIN index.gene_to_diseases THEN index.gene_to_diseases[g] ELSE <<>>

RECURSIVE AliasesOf(_, _, _)
\* the diseases filed under the aliases whose primary symbol is gene_upper
AliasesOf(index, aliases, gene_upper) ==
    IF aliases = <<>> THEN <<>>
    ELSE (IF aliases[1][2] = gene_upper THEN DiseasesOfGene(index, aliases[1][1])
          ELSE <<>>)
            \o AliasesOf(index, Tail(aliases), gene_upper)

\* search_by_gene on a loaded index, lines 117-147
index_search_by_gene(index, gene_symbol) ==
    LET gene_upper == Upper(gene_symbol)
        direct     == DiseasesOfGene(index, gene_upper)
        primary    == {i \in 1..Len(index.gene_aliases) :
                          index.gene_aliases[i][1] = gene_upper}
        by_alias   == IF primary = {} THEN <<>>
                      ELSE DiseasesOfGene(index,
                              index.gene_aliases[CHOOSE i \in primary : TRUE][2])
    IN  UniqueByOmim(direct \o by_alias
                        \o AliasesOf(index, index.gene_aliases, gene_upper), <<>>)

\* GeneToOmimLookup.search_by_gene of the orchestrator's lookup
search_by_gene(gene_symbol) == index_search_by_gene(GenemapIndex, gene_symbol)

\* cross-reference enrichment of a registry entry: <<omim_id, mondo_id>>
EntryIds(disease) ==
    LET omim_id  == IF disease.source = "OMIM" THEN StripOmim(disease.id) ELSE NoneId
        mondo_id == IF disease.source = "MONDO" THEN disease.id ELSE NoneId
    IN  IF omim_id # NoneId /\ mondo_id = NoneId /\ disease.id \in DOMAIN omim_to_mondo
        THEN <<omim_id, omim_to_mondo[disease.id]>>
        ELSE IF mondo_id # NoneId /\ omim_id = NoneId /\ mondo_id \in DOMAIN mondo_to_omim
        THEN <<StripOmim(mondo_to_omim[mondo_id]), mondo_id>>
        ELSE <<omim_id, mondo_id>>

DiseaseById(id) == diseases[CHOOSE i \in 1..Len(diseases) : diseases[i].id = id]

gene_lookup_score      == (95 * Scale) \div 100
gene_to_diseases_score == (90 * Scale) \div 100

\* _search_by_gene, lines 167-187: the direct matches of the gene lookup
direct_candidates(omim_diseases) ==
    [i \in 1..Len(omim_diseases) |->
        LET disease      == omim_diseases[i]
            omim_full_id == <<"OMIM:">> \o disease.omim_id
        IN  DiseaseCandidate(disease.omim_id,
                IF omim_full_id \in DOMAIN omim_to_mondo
                THEN omim_to_mondo[omim_full_id] ELSE NoneId,
                disease.name, disease.genes, gene_lookup_score, "gene_lookup")]

\* _search_by_gene, lines 189-217: the registry's diseases of the gene not seen yet
RECURSIVE mapped_candidates(_, _, _)
mapped_candidates(ids, seen_diseases, candidates) ==
    IF ids = <<>> THEN candidates
    ELSE LET disease_id == ids[1]
         IN  IF disease_id \in seen_diseases \/ disease_id \notin Range(disease_ids)
             THEN mapped_candidates(Tail(ids), seen_diseases, candidates)
             ELSE LET disease == DiseaseById(disease_id)
                      e == EntryIds(disease)
                  IN  mapped_candidates(Tail(ids), seen_diseases \cup {disease_id},
                         Append(candidates,
                            DiseaseCandidate(e[1], e[2], disease.name, disease.genes,
                                gene_to_diseases_score, "gene_to_diseases")))

_search_by_gene(gene) ==
    LET omim_diseases == search_by_gene(gene)
        candidates    == direct_candidates(omim_diseases)
        seen_diseases == {<<"OMIM:">> \o omim_diseases[i].omim_id :
                             i \in 1..Len(omim_diseases)}
        gene_upper    == Upper(gene)
    IN  IF gene_upper \in DOMAIN loader_gene_to_diseases
        THEN mapped_candidates(loader_gene_to_diseases[gene_upper], seen_diseases, candidates)
        ELSE candidates

-----------------------------------------------------------------------------
(* BM25SearchEngine *)

\* str.split(): a text is a sequence of words and of blanks (" ")
Split(text) == SelectSeq(text, LAMBDA t : t # " ")

\* the BM25 score (in points) each word of a query adds to each indexed entry
word_scores(word) ==
    CASE word = "syndrome" -> <<20, 10, 30, 0>>
      [] word = "alpha"    -> <<40, 60, 0, 0>>
      [] OTHER             -> <<0, 0, 0, 0>>

RECURSIVE get_scores(_)
\* BM25Okapi.get_scores(query_tokens): the sum over the tokens of the query
get_scores(query_tokens) ==
    IF query_tokens = <<>> THEN [idx \in 1..Len(disease_ids) |-> 0]
    ELSE LET rest == get_scores(Tail(query_tokens))
         IN  [idx \in 1..Len(disease_ids) |-> word_scores(query_tokens[1])[idx] + rest[idx]]

\* lines 117-123: all_scores keeps the maximum of every entry, in insertion order
RECURSIVE AddScores_mut(_, _, _)
AddScores_mut(scores, idx, all_scores) ==
    IF idx > Len(scores) THEN all_scores
    ELSE IF scores[idx] <= 0 THEN AddScores_mut(scores, idx + 1, all_scores)
    ELSE LET at == {i \in 1..Len(all_scores) : all_scores[i].idx = idx}
         IN  AddScores_mut(scores, idx + 1,
                IF at = {} THEN Append(all_scores, [idx |-> idx, score |-> scores[idx]])
                ELSE [i \in 1..Len(all_scores) |->
                        IF i \in at
                        THEN [all_scores[i] EXCEPT !.score = @ + scores[idx]]
                        ELSE all_scores[i]])
RECURSIVE AddScores(_, _, _)
AddScores(scores, idx, all_scores) ==
    IF idx > Len(scores) THEN all_scores
    ELSE IF scores[idx] <= 0 THEN AddScores(scores, idx + 1, all_scores)
    ELSE LET at == {i \in 1..Len(all_scores) : all_scores[i].idx = idx}
         IN  AddScores(scores, idx + 1,
                IF at = {} THEN Append(all_scores, [idx |-> idx, score |-> scores[idx]])
                ELSE [i \in 1..Len(all_scores) |->
                        IF i \in at
                        THEN [all_scores[i] EXCEPT !.score = Max(@, scores[idx])]
                        ELSE all_scores[i]])

RECURSIVE aggregate_scores(_, _)
aggregate_scores(qs, all_scores) ==
    IF qs = <<>> THEN all_scores
    ELSE aggregate_scores(Tail(qs), AddScores(get_scores(Split(qs[1])), 1, all_scores))

bm25_norm == 50               \* confidence = min(score / 50.0, 1.0)

\* BM25SearchEngine.search
bm25_search(qs, top_k) ==
    LET sorted_indices == SortByScoreDesc(aggregate_scores(qs, <<>>))
        top == SubSeq(sorted_indices, 1, Min(top_k, Len(sorted_indices)))
    IN  [i \in 1..Len(top) |->
            LET disease    == diseases[top[i].idx]
                confidence == Min((top[i].score * Scale) \div bm25_norm, Scale)
                e          == EntryIds(disease)
            IN  DiseaseCandidate(e[1], e[2], disease.name, disease.genes,
                                 confidence, "bm25")]

bm25_gene_boost_tenths == 15  \* Settings.bm25_gene_boost = 1.5
bm25_top_k == 20              \* top_k=20 of _search_by_text

\* lines 199-202: the boost of a candidate with the gene
boosted_mut(candidate) ==
    [candidate EXCEPT !.score = (@ * bm25_gene_boost_tenths) \div 10]
boosted(candidate) ==
    [candidate EXCEPT !.score = Min((@ * bm25_gene_boost_tenths) \div 10, Scale)]

\* BM25SearchEngine.search_with_gene_boost
search_with_gene_boost(qs, gene, top_k) ==
    LET base_results    == bm25_search(qs, top_k * 2)
        gene_normalized == Upper(gene)
        boosted_results ==
            [i \in 1..Len(base_results) |->
                IF gene_normalized \in {Upper(g) : g \in base_results[i].genes}
                THEN boosted(base_results[i])
                ELSE base_results[i]]
        sorted == SortByScoreDesc(boosted_results)
    IN  IF gene = NoGene
        THEN SubSeq(base_results, 1, Min(top_k, Len(base_results)))
        ELSE SubSeq(sorted, 1, Min(top_k, Len(sorted)))

-----------------------------------------------------------------------------
(* LLMQueryGenerator *)

\* the dictionary of _simple_translation (transliterated), in its order:
\* 'myshechnaya distrofiya': 'muscular dystrophy', 'sindrom': 'syndrome',
\* 'angionevroticheskiy otek': 'angioedema'
translations ==
    << << <<"myshechnaya", "distrofiya">>, <<"muscular", "dystrophy">> >>,
       << <<"sindrom">>, <<"syndrome">> >>,
       << <<"angionevroticheskiy", "otek">>, <<"angioedema">> >> >>

IndexOf(word, words) == CHOOSE i \in 1..Len(words) : words[i] = word /\ \A j \in 1..(i - 1) : words[j] # word

\* lines 272-287: the translation of one word; the lookup inside a compound
\* term raises IndexError when the English term has fewer words
translate_word(word) ==
    LET keys  == {i \in 1..Len(translations) : translations[i][1] = <<word>>}
        terms == {i \in 1..Len(translations) : word \in Range(translations[i][1])}
    IN  IF keys # {} THEN Return(translations[CHOOSE i \in keys : TRUE][2])
        ELSE IF terms = {} THEN Return(<<word>>)
        ELSE LET t == translations[CHOOSE i \in terms : \A j \in terms : i <= j]
                 at == IndexOf(word, t[1])
             IN  IF at > Len(t[2]) THEN Raise ELSE Return(<<t[2][at]>>)

RECURSIVE translate_words(_, _)
translate_words(words, translated_words) ==
    IF words = <<>> THEN Return(translated_words)
    ELSE LET w == translate_word(words[1])
         IN  IF w.raised THEN Raise
             ELSE translate_words(Tail(words), translated_words \o w.value)

\* _simple_translation
_simple_translation(russian_text) == translate_words(Split(russian_text), <<>>)

max_queries == 5

\* the `except Exception` of lines 128-131, and the fall-back of lines 121-123
\* which that handler catches
simple_fallback(russian_text) ==
    LET t == _simple_translation(russian_text)
    IN  IF t.raised THEN Raise ELSE Return(<<t.value>>)

\* lines 57-131: one run of the body of generate_queries
generate_queries(russian_text, reply) ==
    IF reply.kind = "call_error" THEN simple_fallback(russian_text)
    ELSE LET kept == SelectSeq(reply.queries, LAMBDA q : q # <<>>)
             qs   == SubSeq(kept, 1, Min(max_queries, Len(kept)))
         IN  IF qs = <<>> THEN simple_fallback(russian_text) ELSE Return(qs)

-----------------------------------------------------------------------------
(* VariantAnnotator *)

\* int(s) raises ValueError unless s is a string of digits
IsDigits(s) == s \in {"154250998", "12345678"}

VariantInfo(chromosome, position, reference, alternative) ==
    [chromosome |-> chromosome, position |-> position,
     reference |-> reference, alternative |-> alternative]

\* the four patterns share the index list [1, 2, 3, 4] into match.groups()
indices == <<1, 2, 3, 4>>

\* parse_variant, lines 63-110: groups are (chr, chromosome, position, ref, alt)
\* and Python counts them, and the index list, from 0
parse_variant_mut(variant_str) == Raise
parse_variant(variant_str) ==
    IF variant_str.groups = <<>> THEN Return(<<>>)
    ELSE LET groups == variant_str.groups
             at(k)  == groups[indices[k + 1] + 1]
         IN  IF ~IsDigits(at(2)) THEN Raise
             ELSE IF Len(indices) < 5 THEN Raise
             ELSE Return(<<VariantInfo(at(0), at(2), at(3), at(4))>>)

\* annotate_variant by the fallback coordinates: the genes at the position
annotate_variant(variant_info) ==
    IF variant_info.chromosome = "X" THEN <<"G1">> ELSE <<>>

-----------------------------------------------------------------------------
(* HybridOrchestrator: conflicts and response assembly *)

conflict_penalty_tenths == 3  \* Settings.conflict_penalty = 0.3

\* lines 345-350: the conflicts whose gene is among the candidate's genes
ConflictsOf(candidate, conflicts) ==
    {i \in 1..Len(conflicts) : conflicts[i].found \in candidate.genes}

MaxSeverity_mut(S, conflicts) ==
    CHOOSE m \in {conflicts[i].severity : i \in S} :
        \A i \in S : conflicts[i].severity >= m
MaxSeverity(S, conflicts) ==
    CHOOSE m \in {conflicts[i].severity : i \in S} :
        \A i \in S : conflicts[i].severity <= m

\* lines 353-380: score * (1 - conflict_penalty * max_severity), the penalty
\* in thousandths
penalized(candidate, conflicts, key_conflicts) ==
    LET max_severity == MaxSeverity(key_conflicts, conflicts)
        penalty      == (conflict_penalty_tenths * max_severity) \div (10 * (Scale \div 1000))
    IN  [candidate EXCEPT !.score = (@ * (1000 - penalty)) \div 1000]

\* _apply_conflicts: conflicts are collected per disease key
_apply_conflicts(candidates, conflicts) ==
    IF conflicts = <<>> THEN candidates
    ELSE LET conflict_map(key) ==
                 UNION {ConflictsOf(candidates[i], conflicts) :
                          i \in {j \in 1..Len(candidates) :
                                    _get_disease_key(candidates[j]) = key}}
             adjusted_candidates ==
                 [i \in 1..Len(candidates) |->
                     LET key_conflicts == conflict_map(_get_disease_key(candidates[i]))
                     IN  IF key_conflicts # {}
                         THEN penalized(candidates[i], conflicts, key_conflicts)
                         ELSE candidates[i]]
         IN  SortByScoreDesc(adjusted_candidates)

\* pydantic validation of UnifiedDiseaseMatch: score: float = Field(ge=0.0, le=1.0)
ScoreValid(score) == score >= 0 /\ score <= Scale

UnifiedDiseaseMatch(rank, omim_id, mondo_id, name, score, genes) ==
    [rank |-> rank, omim_id |-> omim_id, mondo_id |-> mondo_id, name |-> name,
     score |-> score, genes |-> genes]

\* pydantic validation of UnifiedExtended: methods_used is a required field
ExtendedValid(extended) == "methods_used" \in DOMAIN extended

\* UnifiedMetadata: the count of results (time, architecture and model left out)
UnifiedMetadata(total_results) == [total_results |-> total_results]

\* UnifiedMatchResponse(...): extended and error are <<>> (None) or <<value>>
UnifiedMatchResponse(results, metadata, extended, error) ==
    IF extended # <<>> /\ ~ExtendedValid(extended[1]) THEN Raise
    ELSE Return([kind |-> "response", results |-> results, metadata |-> metadata,
                 extended |-> extended, error |-> error])

Sentinel == "Diagnoz ne ustanovlen"

\* lines 61-81: the response of the empty-diagnosis path
no_diagnosis_response ==
    UnifiedMatchResponse(
        <<UnifiedDiseaseMatch(1, NoneId, NoneId, Sentinel, 0, {})>>,
        UnifiedMetadata(1),
        <<[no_diagnosis |-> TRUE, message |-> "No diagnosis provided in the query"]>>,
        <<>>)

\* lines 403-416: cross-reference enrichment of a result
ResultIds_mut(candidate) == <<candidate.omim_id, candidate.mondo_id>>
ResultIds(candidate) ==
    LET omim_full_id == <<"OMIM:">> \o candidate.omim_id
    IN  IF candidate.omim_id # NoneId /\ candidate.mondo_id = NoneId
        THEN <<candidate.omim_id,
               IF omim_full_id \in DOMAIN omim_to_mondo
               THEN omim_to_mondo[omim_full_id] ELSE NoneId>>
        ELSE IF candidate.mondo_id # NoneId /\ candidate.omim_id = NoneId
        THEN <<IF candidate.mondo_id \in DOMAIN mondo_to_omim
               THEN StripOmim(mondo_to_omim[candidate.mondo_id]) ELSE NoneId,
               candidate.mondo_id>>
        ELSE <<candidate.omim_id, candidate.mondo_id>>

MethodsOf(sr) == [i \in 1..Len(sr) |-> sr[i][1]]

\* _create_response
_create_response(candidates, sr, llm_reasoning, conflicts) ==
    IF \E i \in 1..Len(candidates) : ~ScoreValid(candidates[i].score) THEN Raise
    ELSE UnifiedMatchResponse(
            [i \in 1..Len(candidates) |->
                LET e == ResultIds(candidates[i])
                IN  UnifiedDiseaseMatch(i, e[1], e[2], candidates[i].name,
                                        candidates[i].score, candidates[i].genes)],
            UnifiedMetadata(Len(candidates)),
            <<[methods_used |-> MethodsOf(sr) \o <<"llm_rerank">>,
               llm_reasoning |-> llm_reasoning,
               conflicts |-> conflicts]>>,
            <<>>)

\* _create_empty_response
_create_empty_response_mut ==
    UnifiedMatchResponse(<<>>, UnifiedMetadata(0), <<>>, <<[code |-> "SEARCH_ERROR"]>>)
_create_empty_response ==
    UnifiedMatchResponse(<<>>, UnifiedMetadata(0),
                         <<[methods_used |-> <<>>, conflicts |-> <<>>]>>, <<>>)

\* _create_error_response
_create_error_response ==
    UnifiedMatchResponse(<<>>, UnifiedMetadata(0), <<>>, <<[code |-> "SEARCH_ERROR"]>>)

-----------------------------------------------------------------------------
(* HybridOrchestrator.search: one request from call to return *)

MaxTopK == 2                  \* largest top_k of a request

RECURSIVE LStrip(_)
LStrip(text) == IF text # <<>> /\ text[1] = " " THEN LStrip(Tail(text)) ELSE text

RECURSIVE RStrip(_)
RStrip(text) ==
    IF text # <<>> /\ text[Len(text)] = " "
    THEN RStrip(SubSeq(text, 1, Len(text) - 1)) ELSE text

\* str.strip()
Strip(text) == RStrip(LStrip(text))

\* line 61: not query.text or query.text.strip() in ["-", ""]
IsNoDiagnosis(text) == text = <<>> \/ Strip(text) \in {<<"-">>, <<>>}

\* "", " ", "-", " - ", 'sindrom', 'otek' (Russian, transliterated), "alpha"
Texts == { <<>>, <<" ">>, <<"-">>, <<" ", "-", " ">>,
           <<"sindrom">>, <<"otek">>, <<"alpha">> }

Genes == { NoGene, "G1", "g2", "G1A" }

\* no variant, a string no pattern matches, and "chrX:154250998-C>T"
Variants ==
    { [empty |-> TRUE, groups |-> <<>>],
      [empty |-> FALSE, groups |-> <<>>],
      [empty |-> FALSE, groups |-> <<"chr", "X", "154250998", "C", "T">>] }

HybridQuery(text, gene, variant_coordinates, language, top_k) ==
    [text |-> text, gene |-> gene, variant_coordinates |-> variant_coordinates,
     language |-> language, top_k |-> top_k]

Queries ==
    { HybridQuery(t, g, v, l, k) :
        t \in Texts, g \in Genes, v \in Variants, l \in {"ru", "en"}, k \in 1..MaxTopK }

\* the judge's replies of a request: those of at most one entry
SearchJudgeReplies == {r \in JudgeReplies : Len(r.items) <= 1}

\* the translation service fails, or answers with a list of queries
TranslatorReplies ==
    { [kind |-> "call_error", queries |-> <<>>],
      [kind |-> "list", queries |-> <<>>],
      [kind |-> "list", queries |-> << <<"alpha">> >>],
      [kind |-> "list", queries |-> << <<"syndrome">>, <<"alpha">> >>] }

PendingTask == [status |-> "pending", result |-> <<>>]
DoneTask(result) == [status |-> "done", result |-> result]

Init ==
    /\ pc = "search_call"
    /\ query \in Queries
    /\ judge \in SearchJudgeReplies
    /\ search_results = <<>>
    /\ merged_candidates = <<>>
    /\ reranking_result = NoResult
    /\ response = NoResponse
    /\ calls = NoCalls
    /\ attempt_number = 0
    /\ translator = NoReply
    /\ working_gene = NoGene
    /\ queries = <<>>
    /\ tasks = NoTasks
    /\ call_args = NoArgs
    /\ BatchUnset
    /\ SharedUnset
    /\ call_result = NoReturn

\* lines 56-81: the empty-diagnosis check, outside the try block
CheckText ==
    /\ pc = "search_call"
    /\ IF IsNoDiagnosis(query.text)
       THEN LET r == no_diagnosis_response
            IN  /\ pc' = IF r.raised THEN "search_raised" ELSE "search_returned"
                /\ response' = IF r.raised THEN response ELSE r.value
       ELSE /\ pc' = "annotate"
            /\ response' = response
    /\ UNCHANGED <<shared_vars, batch_vars, call_args, call_result, query, search_results, merged_candidates, judge, reranking_result,
                   calls, attempt_number, translator, working_gene, queries, tasks>>

\* lines 83-108: variant annotation, working gene, creation of the search tasks
AnnotateVariant ==
    /\ pc = "annotate"
    /\ LET parsed == IF query.variant_coordinates.empty THEN Return(<<>>)
                     ELSE parse_variant(query.variant_coordinates)
           genes  == IF parsed.raised \/ parsed.value = <<>> THEN <<>>
                     ELSE annotate_variant(parsed.value[1])
           variant_gene == IF genes = <<>> THEN NoGene ELSE genes[1]
           gene   == IF query.gene # NoGene THEN query.gene ELSE variant_gene
       IN  IF parsed.raised
           THEN /\ response' = _create_error_response.value
                /\ pc' = "search_returned"
                /\ UNCHANGED <<working_gene, tasks>>
           ELSE /\ working_gene' = gene
                /\ tasks' = [gene_lookup |-> IF gene # NoGene THEN PendingTask ELSE IdleTask,
                             bm25 |-> PendingTask]
                /\ pc' = "gather"
                /\ response' = response
    /\ UNCHANGED <<shared_vars, batch_vars, call_args, call_result, query, search_results, merged_candidates, judge, reranking_result,
                   calls, attempt_number, translator, queries>>

\* the gene-lookup task of asyncio.gather (lines 104, 112), at any point
\* between the steps of the text task
SearchByGene ==
    /\ pc = "gather"
    /\ tasks.gene_lookup.status = "pending"
    /\ tasks' = [tasks EXCEPT !.gene_lookup = DoneTask(_search_by_gene(working_gene))]
    /\ calls' = [calls EXCEPT !.gene_lookup = @ + 1]
    /\ UNCHANGED <<shared_vars, batch_vars, call_args, call_result, pc, query, search_results, merged_candidates, judge,
                   reranking_result, response, attempt_number, translator,
                   working_gene, queries>>

\* the text task, lines 229-233: one attempt of the decorated generate_queries;
\* an exception that leaves it leaves asyncio.gather and reaches the except
\* block of search
TranslateAttempt ==
    /\ pc = "gather"
    /\ tasks.bm25.status = "pending"
    /\ query.language = "ru"
    /\ queries = <<>>
    /\ \E reply \in TranslatorReplies :
          LET outcome == generate_queries(query.text, reply)
              next    == AfterAttempt(outcome, attempt_number + 1)
          IN  /\ translator' = reply
              /\ attempt_number' = attempt_number + 1
              /\ calls' = [calls EXCEPT !.translation = @ + 1]
              /\ queries' = IF next = "return" THEN outcome.value ELSE queries
              /\ pc' = IF next = "raise" THEN "search_returned" ELSE pc
              /\ response' = IF next = "raise" THEN _create_error_response.value
                             ELSE response
    /\ UNCHANGED <<shared_vars, batch_vars, call_args, call_result, query, search_results, merged_candidates, judge, reranking_result,
                   working_gene, tasks>>

\* the text task, lines 234-252: the lexical search over the queries
SearchByText ==
    /\ pc = "gather"
    /\ tasks.bm25.status = "pending"
    /\ query.language # "ru" \/ queries # <<>>
    /\ LET qs == IF query.language = "ru" THEN queries ELSE <<query.text>>
           candidates == IF working_gene # NoGene
                         THEN search_with_gene_boost(qs, working_gene, bm25_top_k)
                         ELSE bm25_search(qs, bm25_top_k)
       IN  /\ queries' = qs
           /\ tasks' = [tasks EXCEPT !.bm25 = DoneTask(candidates)]
    /\ calls' = [calls EXCEPT !.bm25 = @ + 1]
    /\ UNCHANGED <<shared_vars, batch_vars, call_args, call_result, pc, query, search_results, merged_candidates, judge,
                   reranking_result, response, attempt_number, translator,
                   working_gene>>

\* line 112: asyncio.gather returns when every task handed to it has returned
gathered_mut(search_tasks) == search_tasks.bm25.status = "done"
gathered(search_tasks) ==
    /\ search_tasks.gene_lookup.status \in {"done", "none"}
    /\ search_tasks.bm25.status = "done"

\* lines 110-122: the join of the tasks, the merge and the empty response
JoinAndMerge ==
    /\ pc = "gather"
    /\ gathered(tasks)
    /\ LET sr == (IF tasks.gene_lookup.status = "done"
                  THEN << <<"gene_lookup", tasks.gene_lookup.result>> >> ELSE <<>>)
                    \o << <<"bm25", tasks.bm25.result>> >>
           merged == merge_candidates(sr)
       IN  /\ search_results' = sr
           /\ merged_candidates' = merged
           /\ pc' = IF merged = <<>> THEN "search_returned" ELSE "rerank_call"
           /\ response' = IF merged = <<>> THEN _create_empty_response.value
                          ELSE response
    /\ attempt_number' = 0
    /\ UNCHANGED <<shared_vars, batch_vars, call_args, call_result, query, judge, reranking_result, calls, translator,
                   working_gene, queries, tasks>>

\* lines 135-154: conflicts, truncation to top_k, the response; an exception
\* of the rerank call or of the assembly gives the error response
Respond ==
    /\ pc \in {"rerank_done", "rerank_raised"}
    /\ LET final_candidates == _apply_conflicts(reranking_result.ranked_candidates,
                                                reranking_result.conflicts_detected)
           r == IF pc = "rerank_raised" THEN Raise
                ELSE _create_response(
                        SubSeq(final_candidates, 1,
                               Min(query.top_k, Len(final_candidates))),
                        search_results, reranking_result.reasoning,
                        reranking_result.conflicts_detected)
       IN  response' = IF r.raised THEN _create_error_response.value ELSE r.value
    /\ pc' = "search_returned"
    /\ UNCHANGED <<shared_vars, batch_vars, call_args, call_result, query, search_results, merged_candidates, judge, reranking_result,
                   calls, attempt_number, translator, working_gene, queries, tasks>>

Next ==
    \/ CheckText
    \/ AnnotateVariant
    \/ SearchByGene
    \/ TranslateAttempt
    \/ SearchByText
    \/ JoinAndMerge
    \/ RerankAttempt
    \/ Respond

Spec == Init /\ [][Next]_vars

-----------------------------------------------------------------------------
(* Claims about HybridOrchestrator.search, checked under Spec *)

\* C1: a request whose text is empty, blank or "-" ends with a response of
\* exactly one result, the "no diagnosis" sentinel with score 0.0, and no call
\* was made to the gene lookup, the lexical search, the translation service or
\* the judge.
C1_EmptyTextShortCircuit ==
    (IsNoDiagnosis(query.text) /\ pc # "search_call") =>
       /\ pc = "search_returned"
       /\ Len(response.results) = 1
       /\ response.results[1].name = Sentinel
       /\ response.results[1].score = 0
       /\ calls = NoCalls

\* C5: a failing call to the judge or to the translation service is attempted
\* stop_after_attempt times before the step degrades (pass-through of the
\* candidates, fall-back query), and never more often.
C5_DegradeOnlyAfterRetries ==
    /\ attempt_number <= stop_after_attempt
    /\ (reranking_result # NoResult /\ judge.kind = "call_error") =>
          calls.judge = stop_after_attempt
    /\ (queries # <<>> /\ query.language = "ru" /\ translator.kind = "call_error") =>
          calls.translation = stop_after_attempt

\* the variant string of the request makes parse_variant raise
VariantRaises ==
    /\ ~query.variant_coordinates.empty
    /\ parse_variant(query.variant_coordinates).raised

\* C6: whatever the translation service and the judge answer, and however they
\* fail, a request that meets no other error does not end in an error response.
C6_CollaboratorFailureNeverAnError ==
    (pc = "search_returned" /\ ~VariantRaises) => response.error = <<>>

\* C7: no exception leaves search, and a response that carries an error carries
\* no results.
C7_NoExceptionEscapesSearch ==
    /\ pc # "search_raised"
    /\ (pc = "search_returned" /\ response.error # <<>>) => response.results = <<>>

\* the first gene of the annotation of the variant the coordinates denote
StatedVariantGene(v) ==
    IF v.empty \/ v.groups = <<>> THEN NoGene
    ELSE LET genes == annotate_variant(
                         VariantInfo(v.groups[2], v.groups[3], v.groups[4], v.groups[5]))
         IN  IF genes = <<>> THEN NoGene ELSE genes[1]

\* C16: once a request with a diagnosis text is past the annotation step, its
\* working gene is the query's gene when one is given, otherwise the first
\* gene of the annotation of the query's variant, otherwise none.
C16_WorkingGenePrecedence ==
    (pc \notin {"search_call", "annotate"} /\ ~IsNoDiagnosis(query.text)) =>
        working_gene = IF query.gene # NoGene THEN query.gene
                       ELSE StatedVariantGene(query.variant_coordinates)

\* the searches were joined and their merge is empty
MergedNothing == search_results # <<>> /\ merged_candidates = <<>>

\* C17: when the merge of a request yields no candidates, search returns the
\* fixed empty response (no results, total_results 0, no error) and the judge
\* is never called.
C17_EmptyMergeEmptyResponse ==
    MergedNothing =>
       /\ pc = "search_returned"
       /\ response.results = <<>>
       /\ response.metadata.total_results = 0
       /\ response.error = <<>>
       /\ calls.judge = 0

\* a request whose lexical search ran and whose merge is empty
C17_Witness ==
    /\ MergedNothing
    /\ pc = "search_returned"
    /\ calls.bm25 = 1
    /\ response.error = <<>>

\* the request has variant coordinates that no pattern of parse_variant matches
VariantUnparseable ==
    /\ ~query.variant_coordinates.empty
    /\ query.variant_coordinates.groups = <<>>

\* C22: a request whose variant string cannot be parsed goes on as a request
\* without variant: past the annotation step its working gene is the query's
\* gene, the lexical search is dispatched, the gene lookup is dispatched
\* exactly when the query has a gene, and no error response precedes the
\* dispatch of the searches.
C22_UnparseableVariantIgnored ==
    (VariantUnparseable /\ ~IsNoDiagnosis(query.text)
        /\ pc \notin {"search_call", "annotate"}) =>
       /\ working_gene = query.gene
       /\ tasks.bm25.status # "none"
       /\ (tasks.gene_lookup.status # "none") <=> (query.gene # NoGene)

\* such a request, answered with results
C22_Witness ==
    /\ VariantUnparseable
    /\ pc = "search_returned"
    /\ response.error = <<>>
    /\ response.results # <<>>
    /\ calls.judge >= 1

\* what each dispatched search returns for the request
StatedSearchResults ==
    (IF working_gene # NoGene
     THEN << <<"gene_lookup", _search_by_gene(working_gene)>> >> ELSE <<>>)
      \o << <<"bm25", IF working_gene # NoGene
                      THEN search_with_gene_boost(queries, working_gene, bm25_top_k)
                      ELSE bm25_search(queries, bm25_top_k)>> >>

\* C26: the gene lookup is dispatched exactly when there is a working gene
\* and the lexical search always; once the results are joined and merged no
\* dispatched search is still pending, each search ran once, and every
\* result stands under the name of the search that produced it, in whatever
\* order the two tasks ran.
C26_MergeAfterAllSearches ==
    /\ tasks # NoTasks =>
          /\ tasks.gene_lookup.status # "none" <=> working_gene # NoGene
          /\ tasks.bm25.status # "none"
    /\ search_results # <<>> =>
          /\ tasks.gene_lookup.status # "pending"
          /\ tasks.bm25.status = "done"
          /\ calls.gene_lookup = (IF working_gene # NoGene THEN 1 ELSE 0)
          /\ calls.bm25 = 1
          /\ search_results = StatedSearchResults
          /\ merged_candidates = merge_candidates(StatedSearchResults)

\* both searches returned candidates, after a translation, and were merged
C26_Witness ==
    /\ Len(search_results) = 2
    /\ search_results[1][1] = "gene_lookup" /\ search_results[1][2] # <<>>
    /\ search_results[2][1] = "bm25" /\ search_results[2][2] # <<>>
    /\ calls.translation >= 1
    /\ merged_candidates # <<>>

\* the event loop runs search to its end: every await of search returns
\* or raises (the LLM client's calls end with a reply or an error)
SpecLive == Spec /\ WF_vars(Next)

\* the stage of search the request is in: 1 variant parsing and gene
\* resolution, 2 fork-join search, 3 merged, rerank in progress, 4 reranked,
\* 5 ended
Stage ==
    CASE pc = "search_call" -> 0
      [] pc = "annotate"    -> 1
      [] pc = "gather"      -> 2
      [] pc = "rerank_call" -> 3
      [] pc \in {"rerank_done", "rerank_raised"} -> 4
      [] OTHER -> 5

StagesInOrder ==
    /\ Stage <= Stage'
    /\ working_gene' # working_gene => Stage = 1
    /\ tasks' # tasks => Stage \in {1, 2}
    /\ (search_results' # search_results \/ merged_candidates' # merged_candidates)
          => Stage = 2 /\ gathered(tasks)
    /\ reranking_result' # reranking_result => Stage = 3 /\ Stage' = 4
    /\ response' # response => Stage' = 5 /\ response = NoResponse

BestOfSource(candidates, key) ==
    LET S == { candidates[i].score : i \in { j \in 1..Len(candidates) :
                                                _get_disease_key(candidates[j]) = key } }
    IN  IF S = {} THEN 0 ELSE CHOOSE m \in S : \A x \in S : x <= m

\* the merged score of a key when every source counts once, with its best
\* candidate: the weighted sum, the multi-source bonus and the clamp
ScoreCountedOnce(sr, key) ==
    LET once == [i \in 1..Len(sr) |->
                    [method |-> sr[i][1], score |-> BestOfSource(sr[i][2], key),
                     weighted_score |->
                        (BestOfSource(sr[i][2], key) * method_weight(sr[i][1])) \div 10]]
    IN  final_score(SelectSeq(once, LAMBDA e : e.score > 0))

\* C29: the merged score of a disease is no more than the score it gets when
\* each source is counted once, however many candidates of one source map to
\* the disease's key.
C29_SourceCountedOnce ==
    search_results # <<>> =>
        \A i \in 1..Len(merged_candidates) :
           merged_candidates[i].score
              <= ScoreCountedOnce(search_results, _get_disease_key(merged_candidates[i]))

-----------------------------------------------------------------------------
(* A request whose gene has many diseases: from the join of the searches on *)

MaxHits == 22                 \* diseases the gene lookup returns

\* what _search_by_gene returns for a gene with n diseases: the direct matches
\* (0.95) first, then the registry's (0.90)
GeneHits(n) ==
    [i \in 1..n |->
        IF 2 * i <= n + 1
        THEN DiseaseCandidate(<<ToString(1000 + i)>>, NoneId, ToString(i), {"G1"},
                              gene_lookup_score, "gene_lookup")
        ELSE DiseaseCandidate(<<ToString(1000 + i)>>, NoneId, ToString(i), {"G1"},
                              gene_to_diseases_score, "gene_to_diseases")]

\* what the lexical search returns: the gene's last disease, score 0.8
TextHits(n) ==
    << DiseaseCandidate(<<ToString(1000 + n)>>, NoneId, ToString(n), {"G1"},
                        800000, "bm25") >>

InitJoin ==
    /\ pc = "gather"
    /\ \E k \in 1..MaxTopK : query = HybridQuery(<<"alpha">>, "G1", [empty |-> TRUE, groups |-> <<>>], "en", k)
    /\ judge \in SearchJudgeReplies
    /\ working_gene = "G1"
    /\ \E n \in 1..MaxHits :
          tasks = [gene_lookup |-> DoneTask(GeneHits(n)), bm25 |-> DoneTask(TextHits(n))]
    /\ calls = [NoCalls EXCEPT !.gene_lookup = 1, !.bm25 = 1]
    /\ search_results = <<>>
    /\ merged_candidates = <<>>
    /\ reranking_result = NoResult
    /\ response = NoResponse
    /\ attempt_number = 0
    /\ translator = NoReply
    /\ queries = <<>>
    /\ call_args = NoArgs
    /\ BatchUnset
    /\ SharedUnset
    /\ call_result = NoReturn

NextJoin == JoinAndMerge \/ RerankAttempt \/ Respond

SpecJoin == InitJoin /\ [][NextJoin]_vars

\* the candidates of the last call of the judge
JudgeCandidates == call_args.candidates

JudgeCalled == "candidates" \in DOMAIN call_args

\* C18: the judge is called with at most 20 candidates, the highest-scoring
\* merged ones, and the response never has more results than the request's
\* top_k.
C18_JudgeInputAndOutputBounded ==
    /\ JudgeCalled =>
          /\ Len(JudgeCandidates) <= 20
          /\ Len(JudgeCandidates) = Min(20, Len(merged_candidates))
          /\ Range(JudgeCandidates) \subseteq Range(merged_candidates)
          /\ \A c \in Range(JudgeCandidates) :
                \A d \in Range(merged_candidates) \ Range(JudgeCandidates) :
                   d.score <= c.score
    /\ pc = "search_returned" => Len(response.results) <= query.top_k

\* more than 20 merged candidates: the judge got 20, a lower-scoring one was
\* left out, and the response has top_k results
C18_Witness ==
    /\ pc = "search_returned"
    /\ Len(merged_candidates) > 20
    /\ JudgeCalled
    /\ Len(JudgeCandidates) = 20
    /\ \E d \in Range(merged_candidates) \ Range(JudgeCandidates) :
          d.score < JudgeCandidates[1].score
    /\ Len(response.results) = query.top_k
    /\ response.error = <<>>

-----------------------------------------------------------------------------
(* Functions applied on their own: call_args holds the arguments of the call,
   call_result what it returned; the request's variables stay unset *)

request_vars == <<query, search_results, merged_candidates, judge, reranking_result,
                  response, calls, attempt_number, translator, working_gene,
                  queries, tasks>>

RequestUnset ==
    /\ query = NoQuery
    /\ search_results = <<>>
    /\ merged_candidates = <<>>
    /\ judge = NoJudge
    /\ reranking_result = NoResult
    /\ response = NoResponse
    /\ calls = NoCalls
    /\ attempt_number = 0
    /\ translator = NoReply
    /\ working_gene = NoGene
    /\ queries = <<>>
    /\ tasks = NoTasks

-----------------------------------------------------------------------------
(* GeneToOmimLookup: an index loaded from any genemap, then searched *)

MaxRows == 2

GeneSymbolLists == { <<"G1A">>, <<"G2">>, <<"G1A", "G2">>, <<"G1", "G1A">> }
ApprovedSymbols == { "-", "G1", "G3" }
PhenotypeLists  == { <<>>, << <<Omim100, "Alpha">> >>, << <<Omim200, "Beta">> >> }
LookupGenes     == { "G1", "G1A", "G2", "G3" }

GenemapRows ==
    { GenemapRow(gs, ap, ph) :
        gs \in GeneSymbolLists, ap \in ApprovedSymbols, ph \in PhenotypeLists }

InitGenemap ==
    /\ pc = "genemap_load"
    /\ \E k \in 0..MaxRows : \E rows \in [1..k -> GenemapRows] :
          call_args = [rows |-> rows]
    /\ call_result = NoReturn
    /\ RequestUnset
    /\ BatchUnset
    /\ SharedUnset

\* GeneToOmimLookup.__init__: the index of the genemap
LoadGenemap ==
    /\ pc = "genemap_load"
    /\ call_result' = [index |-> _load_genemap(call_args.rows, EmptyIndex)]
    /\ pc' = "genemap_loaded"
    /\ UNCHANGED <<shared_vars, batch_vars, call_args, request_vars>>

\* search_by_gene(gene_symbol) on the loaded index
LookupGene ==
    /\ pc = "genemap_loaded"
    /\ \E g \in LookupGenes :
          /\ call_args' = [rows |-> call_args.rows, gene_symbol |-> g]
          /\ call_result' = [index |-> call_result.index,
                             found |-> index_search_by_gene(call_result.index, g)]
    /\ pc' = "gene_searched"
    /\ UNCHANGED <<shared_vars, batch_vars, request_vars>>

NextGenemap == LoadGenemap \/ LookupGene

SpecGenemap == InitGenemap /\ [][NextGenemap]_vars

OmimIds(found) == { found[i].omim_id : i \in 1..Len(found) }

\* C12: in every loaded index, for every alias pair (A registered as an alias
\* of the approved symbol B), search_by_gene(A) and search_by_gene(B) return
\* the same set of disease ids
C12_AliasSymmetry ==
    pc = "genemap_loaded" =>
        LET index == call_result.index
        IN  \A i \in 1..Len(index.gene_aliases) :
               OmimIds(index_search_by_gene(index, index.gene_aliases[i][1]))
                  = OmimIds(index_search_by_gene(index, index.gene_aliases[i][2]))

-----------------------------------------------------------------------------
(* _apply_conflicts on its own, applied to what the judge step hands over *)

MaxConflicts == 2

\* entries of the judge's flat list: adjusted_score -0.5 or 0.6, or none
ResolverItems ==
    {Item(id, "number", n) : id \in {<<"OMIM:", "100">>, Mondo9}, n \in {-500000, 600000}}
      \cup {Item(<<"OMIM:", "100">>, "absent", 0)}

ConflictSeverities == { 200000, 1000000 }     \* 0.2 and 1.0
ConflictGenes      == { "G1", "G3", "G9" }

ResolverConflicts ==
    {ConflictData(TRUE, s, g) : s \in ConflictSeverities, g \in ConflictGenes}

ResolverReplies ==
    {JsonReply("flat", i, c) :
        i \in SeqsUpTo(ResolverItems, MaxItems),
        c \in SeqsUpTo(ResolverConflicts, MaxConflicts)}

InitConflicts ==
    /\ pc = "conflicts_call"
    /\ \E candidates \in CandidateLists, reply \in ResolverReplies :
          LET reranked == rerank_candidates(candidates, reply).value
          IN  call_args = [candidates |-> reranked.ranked_candidates,
                           conflicts  |-> reranked.conflicts_detected]
    /\ call_result = NoReturn
    /\ RequestUnset
    /\ BatchUnset
    /\ SharedUnset

ApplyConflicts ==
    /\ pc = "conflicts_call"
    /\ call_result' = [value |-> _apply_conflicts(call_args.candidates,
                                                  call_args.conflicts)]
    /\ pc' = "conflicts_applied"
    /\ UNCHANGED <<shared_vars, batch_vars, call_args, request_vars>>

NextConflicts == ApplyConflicts

SpecConflicts == InitConflicts /\ [][NextConflicts]_vars

\* how often a value occurs in a sequence
Occurrences(seq, x) == Cardinality({i \in 1..Len(seq) : seq[i] = x})

SameBag(a, b) ==
    /\ Len(a) = Len(b)
    /\ \A x \in Range(a) \cup Range(b) : Occurrences(a, x) = Occurrences(b, x)

\* the severities of the conflicts whose `found` gene the candidate has
MatchingSeverities(c, conflicts) ==
    {conflicts[i].severity : i \in {j \in 1..Len(conflicts) : conflicts[j].found \in c.genes}}

\* score * (1 - 0.3 * m), m the largest matching severity; scores in thousandths
StatedAdjusted(c, conflicts) ==
    LET sev == MatchingSeverities(c, conflicts)
        m   == CHOOSE x \in sev : \A y \in sev : y <= x
    IN  IF sev = {} THEN c
        ELSE [c EXCEPT !.score =
                 ((c.score \div 1000) * (10000 - 3 * (m \div 1000))) \div 10]

\* C13: _apply_conflicts gives every candidate whose genes contain the `found`
\* gene of a conflict the score  score * (1 - 0.3 * m), m the maximum severity
\* of the conflicts matching that candidate, and leaves every other candidate
\* as it was: the returned candidates are, up to order, the stated ones.
C13_PenaltyIsMaxSeverity ==
    pc = "conflicts_applied" =>
        SameBag(call_result.value,
                [i \in 1..Len(call_args.candidates) |->
                    StatedAdjusted(call_args.candidates[i], call_args.conflicts)])

\* a candidate matching two conflicts of different severity, next to one
\* matching none
C13_Witness ==
    /\ pc = "conflicts_applied"
    /\ \E i, j \in 1..Len(call_args.candidates) :
          /\ Cardinality(MatchingSeverities(call_args.candidates[i],
                                            call_args.conflicts)) = 2
          /\ MatchingSeverities(call_args.candidates[j], call_args.conflicts) = {}
          /\ \E k \in 1..Len(call_result.value) :
                /\ call_result.value[k].name = call_args.candidates[i].name
                /\ call_result.value[k].score
                      = (call_args.candidates[i].score * 7) \div 10
                /\ call_result.value[k].score # call_args.candidates[i].score

\* the score _apply_conflicts gives a candidate under a list of conflicts
AdjustedScore(c, conflicts) == _apply_conflicts(<<c>>, conflicts)[1].score

WithSeverity(conflicts, j, s) == [conflicts EXCEPT ![j].severity = s]

\* C14: for every candidate that reaches _apply_conflicts and severities
\* s1 > s2, a conflict of severity s1 never gives the candidate a higher
\* adjusted score than the same conflict with severity s2, all else equal.
C14_SeverityMonotone ==
    pc = "conflicts_applied" =>
        \A i \in 1..Len(call_args.candidates), j \in 1..Len(call_args.conflicts) :
           \A s1, s2 \in ConflictSeverities :
              (s1 > s2 /\ call_args.conflicts[j].found \in call_args.candidates[i].genes)
                 => AdjustedScore(call_args.candidates[i],
                                  WithSeverity(call_args.conflicts, j, s1))
                      <= AdjustedScore(call_args.candidates[i],
                                       WithSeverity(call_args.conflicts, j, s2))

\* C15: the list _apply_conflicts returns is in descending order of score,
\* for every list the judge step produces and every list of conflicts.
C15_ResolverOutputDescending ==
    pc = "conflicts_applied" =>
        \A i \in 1..(Len(call_result.value) - 1) :
           call_result.value[i].score >= call_result.value[i + 1].score

-----------------------------------------------------------------------------
(* BM25SearchEngine on its own: search and search_with_gene_boost *)

MaxQueries == 2
MaxResults == 3               \* largest top_k of a call

\* "syndrome", "alpha", "alpha syndrome", and "beta", which matches nothing
QueryTexts == { <<"syndrome">>, <<"alpha">>, <<"alpha", " ", "syndrome">>, <<"beta">> }

BoostGenes == { NoGene, "G1", "g2" }

InitBm25 ==
    /\ pc = "bm25_call"
    /\ \E qs \in SeqsUpTo(QueryTexts, MaxQueries), g \in BoostGenes, k \in 1..MaxResults :
          call_args = [queries |-> qs, gene |-> g, top_k |-> k]
    /\ call_result = NoReturn
    /\ RequestUnset
    /\ BatchUnset
    /\ SharedUnset

\* search(queries, top_k)
Bm25Search ==
    /\ pc = "bm25_call"
    /\ call_result' = [value |-> bm25_search(call_args.queries, call_args.top_k)]
    /\ pc' = "bm25_searched"
    /\ UNCHANGED <<shared_vars, batch_vars, call_args, request_vars>>

\* search_with_gene_boost(queries, gene, top_k)
Bm25SearchWithGeneBoost ==
    /\ pc = "bm25_call"
    /\ call_result' = [value |-> search_with_gene_boost(call_args.queries,
                                                        call_args.gene, call_args.top_k)]
    /\ pc' = "bm25_boosted"
    /\ UNCHANGED <<shared_vars, batch_vars, call_args, request_vars>>

NextBm25 == Bm25Search \/ Bm25SearchWithGeneBoost

SpecBm25 == InitBm25 /\ [][NextBm25]_vars

IsDescending(results) ==
    \A i \in 1..(Len(results) - 1) : results[i].score >= results[i + 1].score

MaxOver(S) == IF S = {} THEN 0 ELSE CHOOSE x \in S : \A y \in S : y <= x

\* the score one query alone gives an indexed entry, as search reports scores
QueryScore(q, idx) == Min((get_scores(Split(q))[idx] * Scale) \div bm25_norm, Scale)

\* the largest of the scores the queries give the entry
StatedMax(idx) ==
    MaxOver({QueryScore(call_args.queries[j], idx) : j \in 1..Len(call_args.queries)})

\* the entries some query scores, as candidates with the stated score
StatedHits ==
    LET hits == SelectSeq([idx \in 1..Len(disease_ids) |-> idx],
                          LAMBDA idx : StatedMax(idx) > 0)
    IN  [i \in 1..Len(hits) |->
            LET e == EntryIds(diseases[hits[i]])
            IN  DiseaseCandidate(e[1], e[2], diseases[hits[i]].name,
                                 diseases[hits[i]].genes, StatedMax(hits[i]), "bm25")]

\* `result` is made of the `k` best of `stated`, best first
IsTopOf(result, stated, k) ==
    /\ Len(result) = Min(k, Len(stated))
    /\ \A x \in Range(result) \cup Range(stated) :
          Occurrences(result, x) <= Occurrences(stated, x)
    /\ IsDescending(result)
    /\ \A x \in Range(stated) :
          Occurrences(result, x) < Occurrences(stated, x)
             => \A i \in 1..Len(result) : result[i].score >= x.score

\* C19: the score search reports for a document and ranks it by is the
\* maximum of the scores the single queries give it, not their sum: the
\* result is made of the top_k best documents under that score, best first.
C19_MultiQueryMax ==
    pc = "bm25_searched" => IsTopOf(call_result.value, StatedHits, call_args.top_k)

\* a document two queries score differently, reported with the larger score,
\* where the sum would have given another one
C19_Witness ==
    /\ pc = "bm25_searched"
    /\ Len(call_args.queries) = 2
    /\ \E idx \in 1..Len(disease_ids) :
          LET a == QueryScore(call_args.queries[1], idx)
              b == QueryScore(call_args.queries[2], idx)
          IN  /\ 0 < a
              /\ a < b
              /\ b < Scale
              /\ \E c \in Range(call_result.value) :
                    c.name = diseases[idx].name /\ c.score = b

\* the base results of the boosted search, and the score stated for each
BaseResults == bm25_search(call_args.queries, 2 * call_args.top_k)

HasGene(c) == Upper(call_args.gene) \in {Upper(g) : g \in c.genes}

StatedBoost(c) ==
    IF HasGene(c)
    THEN [c EXCEPT !.score = IF 3 * c.score >= 2 * Scale THEN Scale ELSE (3 * c.score) \div 2]
    ELSE c

\* C20: search_with_gene_boost gives every candidate with the query gene the
\* score min(score * 1.5, 1.0) and leaves the others their score; the list it
\* returns is in descending order of these scores and has at most top_k
\* entries, the best of the base results.
C20_GeneBoostClampedSorted ==
    pc = "bm25_boosted" =>
       IsTopOf(call_result.value,
               [i \in 1..Len(BaseResults) |-> StatedBoost(BaseResults[i])],
               call_args.top_k)

\* a candidate with the gene and base score 0.8 is returned with score 1.0,
\* next to a returned candidate without the gene
C20_Witness ==
    /\ pc = "bm25_boosted"
    /\ \E i \in 1..Len(BaseResults) :
          /\ HasGene(BaseResults[i])
          /\ BaseResults[i].score = (8 * Scale) \div 10
          /\ [BaseResults[i] EXCEPT !.score = Scale] \in Range(call_result.value)
    /\ \E c \in Range(call_result.value) : ~HasGene(c) /\ c.score > 0

-----------------------------------------------------------------------------
(* VariantAnnotator.parse_variant on its own *)

\* the three documented formats: "dash" chr1:12345678-A>G, "colon"
\* 1:12345678:A:G, "hgvs" chr1:g.12345678A>G
VariantFormats == { "dash", "colon", "hgvs" }
Chromosomes    == { "1", "X" }
Positions      == { "154250998", "12345678" }
Bases          == { "A", "C", "G", "T" }

\* the string of a variant in a format, as re.match sees it: every pattern has
\* the groups (chr)?, chromosome, position, reference, alternative
VariantString(format, prefix, chromosome, position, reference, alternative) ==
    [empty |-> FALSE, format |-> format,
     groups |-> <<IF prefix THEN "chr" ELSE "", chromosome, position,
                  reference, alternative>>]

VariantStrings ==
    { VariantString(f, p, c, n, r, a) :
        f \in VariantFormats, p \in BOOLEAN, c \in Chromosomes, n \in Positions,
        r \in Bases, a \in Bases }
      \cup { [empty |-> FALSE, format |-> "none", groups |-> <<>>] }

InitVariant ==
    /\ pc = "variant_call"
    /\ \E v \in VariantStrings : call_args = [variant_str |-> v]
    /\ call_result = NoReturn
    /\ RequestUnset
    /\ BatchUnset
    /\ SharedUnset

ParseVariant ==
    /\ pc = "variant_call"
    /\ call_result' = parse_variant(call_args.variant_str)
    /\ pc' = "variant_parsed"
    /\ UNCHANGED <<shared_vars, batch_vars, call_args, request_vars>>

NextVariant == ParseVariant

SpecVariant == InitVariant /\ [][NextVariant]_vars

\* C21: parse_variant returns, for every accepted format of a variant, with
\* or without the chr prefix, the VariantInfo of exactly that chromosome,
\* position, reference and alternative.
C21_FormatsParseAlike ==
    (pc = "variant_parsed" /\ call_args.variant_str.groups # <<>>) =>
        LET g == call_args.variant_str.groups
        IN  /\ ~call_result.raised
            /\ call_result.value = <<VariantInfo(g[2], g[3], g[4], g[5])>>

-----------------------------------------------------------------------------
(* LLMQueryGenerator.generate_queries on its own, with its retry decorator *)

\* phrases (transliterated) of words inside and outside the dictionary
Phrases ==
    { <<>>, <<"sindrom">>, <<"otek">>, <<"myshechnaya", " ", "distrofiya">>,
      <<"angionevroticheskiy">>, <<"sindrom", " ", "alpha">>, <<"alpha">>,
      <<" ">>, <<"myshechnaya">>, <<"distrofiya">>, <<"otek", " ", "alpha">>,
      <<"alpha", " ", "sindrom">>, <<"angionevroticheskiy", " ", "otek">>,
      <<"beta">>, <<"sindrom", " ", "beta">> }

\* the service fails; it answers with no query, with blank ones only, with one
\* or two queries, or with six
GeneratorReplies ==
    TranslatorReplies
      \cup { [kind |-> "list", queries |-> << <<>>, <<>> >>],
             [kind |-> "list",
              queries |-> << <<"a1">>, <<"a2">>, <<"a3">>, <<"a4">>, <<"a5">>, <<"a6">> >>] }

InitGenerate ==
    /\ pc = "generate_call"
    /\ \E t \in Phrases : call_args = [russian_text |-> t]
    /\ call_result = NoReturn
    /\ RequestUnset
    /\ BatchUnset
    /\ SharedUnset

\* one attempt of the decorated generate_queries
GenerateAttempt ==
    /\ pc = "generate_call"
    /\ \E reply \in GeneratorReplies :
          LET outcome == generate_queries(call_args.russian_text, reply)
              next    == AfterAttempt(outcome, attempt_number + 1)
          IN  /\ translator' = reply
              /\ attempt_number' = attempt_number + 1
              /\ call_result' = IF next = "retry" THEN call_result ELSE outcome
              /\ pc' = CASE next = "return" -> "generate_returned"
                         [] next = "raise"  -> "generate_raised"
                         [] OTHER           -> "generate_call"
    /\ UNCHANGED <<shared_vars, batch_vars, call_args, query, search_results, merged_candidates, judge,
                   reranking_result, response, calls, working_gene, queries, tasks>>

NextGenerate == GenerateAttempt

SpecGenerate == InitGenerate /\ [][NextGenerate]_vars

\* the reply of the last attempt gave no usable query
NoUsableQuery ==
    translator.kind = "call_error" \/ \A i \in 1..Len(translator.queries) : translator.queries[i] = <<>>

\* C23: generate_queries never raises and returns a non-empty list of at most
\* 5 queries; when the call failed or gave no usable query the list is exactly
\* the dictionary translation of the phrase.
C23_QueriesAlwaysReturned ==
    /\ pc # "generate_raised"
    /\ pc = "generate_returned" =>
          /\ Len(call_result.value) >= 1
          /\ Len(call_result.value) <= 5
          /\ NoUsableQuery =>
                /\ ~_simple_translation(call_args.russian_text).raised
                /\ call_result.value
                     = <<_simple_translation(call_args.russian_text).value>>

-----------------------------------------------------------------------------
(* HybridOrchestrator._create_response on its own *)

MaxAssembled == 2

\* candidates with one identifier or both, with and without a cross-reference
\* in the registry; score 0.5, or 1.5 as the judge may set it
AssemblyPool ==
    { DiseaseCandidate(id[1], id[2], "Name", {"G1"}, sc, "combined") :
        id \in { <<Omim100, NoneId>>, <<NoneId, Mondo7>>, <<Omim100, Mondo7>>,
                 <<Omim200, NoneId>>, <<NoneId, Mondo9>> },
        sc \in { 500000, 1500000 } }

InitAssemble ==
    /\ pc = "assemble_call"
    /\ \E k \in 0..MaxAssembled : \E cs \in [1..k -> AssemblyPool] :
          call_args = [candidates |-> cs]
    /\ call_result = NoReturn
    /\ RequestUnset
    /\ BatchUnset
    /\ SharedUnset

Assemble ==
    /\ pc = "assemble_call"
    /\ call_result' = _create_response(call_args.candidates,
                                       << <<"bm25", <<>>>> >>, "reasoning", <<>>)
    /\ pc' = "assembled"
    /\ UNCHANGED <<shared_vars, batch_vars, call_args, request_vars>>

NextAssemble == Assemble

SpecAssemble == InitAssemble /\ [][NextAssemble]_vars

\* the candidate has this identifier only, and the registry maps it
OmimOnlyMapped(c) ==
    c.omim_id # NoneId /\ c.mondo_id = NoneId
       /\ (<<"OMIM:">> \o c.omim_id) \in DOMAIN omim_to_mondo
MondoOnlyMapped(c) ==
    c.mondo_id # NoneId /\ c.omim_id = NoneId /\ c.mondo_id \in DOMAIN mondo_to_omim

\* C24: in an assembled response the result of a candidate that has an
\* omim_id with an OMIM->MONDO mapping and no mondo_id carries the mapped
\* mondo_id, and the result of a candidate that has only a mapped mondo_id
\* carries the mapped omim_id (without its prefix); its own identifier stays.
C24_ResultIdsFilledIn ==
    (pc = "assembled" /\ ~call_result.raised) =>
        \A i \in 1..Len(call_args.candidates) :
           LET c == call_args.candidates[i]
               r == call_result.value.results[i]
           IN  /\ OmimOnlyMapped(c) =>
                     /\ r.mondo_id = omim_to_mondo[<<"OMIM:">> \o c.omim_id]
                     /\ r.omim_id = c.omim_id
               /\ MondoOnlyMapped(c) =>
                     /\ <<"OMIM:">> \o r.omim_id = mondo_to_omim[c.mondo_id]
                     /\ r.mondo_id = c.mondo_id

\* a response assembled from one candidate of each kind
C24_Witness ==
    /\ pc = "assembled"
    /\ ~call_result.raised
    /\ Len(call_args.candidates) = 2
    /\ OmimOnlyMapped(call_args.candidates[1])
    /\ MondoOnlyMapped(call_args.candidates[2])
    /\ call_result.value.results[1].mondo_id = Mondo7
    /\ call_result.value.results[2].omim_id = Omim100

-----------------------------------------------------------------------------
(* The command-line batch processor: ClinicalDataProcessor (processor.py) *)

MaxBatchRows == 3             \* rows of the file
MaxConcurrent == 2            \* largest --max-concurrent

\* a cell pandas read as missing; pd.notna(cell) is cell # NaNCell
NaNCell == <<"<missing cell>">>
Dash == <<"-">>

\* lines 242-246; the en dash and the em dash are written by their names,
\* 'Pustaya stroka' is the Russian placeholder, transliterated
empty_values_mut ==
    { <<"-">>, <<"en dash">>, <<"em dash">>, <<"nan">>, <<"NaN">>, <<"None">>,
      <<"null">>, <<"<NULL>">>, <<"<null>">>, <<"N/A">>, <<"n/a">>,
      <<"#N/A">>, <<"#VALUE!">>, <<"<Pustaya stroka>">>, <<>> }
empty_values ==
    { <<"-">>, <<"en dash">>, <<"em dash">>, <<"nan">>, <<"NaN">>, <<"None">>,
      <<"null">>, <<"NULL">>, <<"<NULL>">>, <<"<null>">>, <<"N/A">>, <<"n/a">>,
      <<"#N/A">>, <<"#VALUE!">>, <<"<Pustaya stroka>">>, <<>> }

\* lines 225, 228: str(cell) if pd.notna(cell) else ""
CellText(cell) == IF cell # NaNCell THEN cell ELSE <<>>

\* lines 231-237: the columns of the row with their values
full_context_of(row) ==
    << <<"diagnosis", IF row.diagnosis # NaNCell THEN row.diagnosis
                      ELSE <<"<Pustaya stroka>">> >>,
       <<"gene", IF row.gene # NaNCell THEN row.gene ELSE <<"<Pustaya stroka>">> >> >>

\* lines 224-262, one row; idx is the row's label in the DataFrame's index
prepare_row(idx, row) ==
    LET diagnosis == CellText(row.diagnosis)
        gene == CellText(row.gene)
        diagnosis_clean == Strip(diagnosis)
    IN  IF diagnosis_clean = <<>> \/ diagnosis_clean \in empty_values
        THEN [index |-> idx, diagnosis |-> <<>>, gene |-> <<>>,
              full_context |-> full_context_of(row), skip |-> TRUE]
        ELSE [index |-> idx, diagnosis |-> diagnosis_clean,
              gene |-> IF gene # <<>> THEN Strip(gene) ELSE <<>>,
              full_context |-> full_context_of(row), skip |-> FALSE]

\* lines 220-264; read_csv and read_excel label the rows 0, 1, 2, ...
_prepare_rows(frame) == [i \in 1..Len(frame) |-> prepare_row(i - 1, frame[i])]

\* one entry of the "results" of the API's reply
ApiResult(omim_id, mondo_id, name, requires_clarification, clarification_reason) ==
    [omim_id |-> omim_id, mondo_id |-> mondo_id, name |-> name,
     requires_clarification |-> requires_clarification,
     clarification_reason |-> clarification_reason]

RowResult(omim_code, mondo_code, disease_name, clarification) ==
    [omim_code |-> omim_code, mondo_code |-> mondo_code,
     disease_name |-> disease_name, clarification |-> clarification]

\* value.get(key) or '-'
OrDash(v) == IF v = NoneId THEN Dash ELSE v

\* "text in clarification", on the pieces a clarification is made of
HasPiece(clarification, piece) ==
    \E i \in 1..Len(clarification) : clarification[i] = piece

\* the first result after the first one that has the identifier, 0 if none
NextWith(api_results, field) ==
    LET S == { j \in 2..Len(api_results) : api_results[j][field] # NoneId }
    IN  IF S = {} THEN 0 ELSE CHOOSE j \in S : \A k \in S : j <= k

\* lines 321-392: the reply has results ('OMIM ne naiden' and the other texts
\* are the Russian messages, transliterated; names of the model are shorter
\* than the 25 characters name[:25] keeps)
found_result(idx, api_results) ==
    LET first_result == api_results[1]
        omim_code == OrDash(first_result.omim_id)
        mondo_code == OrDash(first_result.mondo_id)
        with_mondo == { j \in 1..Len(api_results) : api_results[j].mondo_id # NoneId }
        disease_name ==
            IF with_mondo # {}
            THEN api_results[CHOOSE j \in with_mondo : \A k \in with_mondo : j <= k].name
            ELSE first_result.name
        c0 == IF first_result.requires_clarification
              THEN first_result.clarification_reason ELSE Dash
        no ==  NextWith(api_results, "omim_id")
        near_omim == <<"OMIM ne naiden", ". Blizhaishii: ">>
                        \o (IF no = 0 THEN <<>> ELSE api_results[no].omim_id)
                        \o <<":", IF no = 0 THEN "" ELSE api_results[no].name>>
        c1 == IF omim_code # Dash \/ no = 0 THEN c0
              ELSE IF c0 = Dash THEN near_omim ELSE c0 \o <<"; ">> \o near_omim
        c2 == IF omim_code = Dash /\ ~HasPiece(c1, "OMIM ne naiden")
              THEN IF c1 = Dash THEN <<"OMIM ne naiden">>
                   ELSE c1 \o <<"; ", "OMIM ne naiden">>
              ELSE c1
        nm == NextWith(api_results, "mondo_id")
        near_mondo == <<"MONDO ne naiden", ". Blizhaishii: ">>
                         \o (IF nm = 0 THEN <<>> ELSE api_results[nm].mondo_id)
        c3 == IF mondo_code # Dash \/ nm = 0 THEN c2
              ELSE IF c2 = Dash THEN near_mondo
              ELSE IF HasPiece(c2, "OMIM ne naiden") THEN c2 \o <<", ">> \o near_mondo
              ELSE c2
        c4 == IF mondo_code = Dash /\ ~HasPiece(c3, "MONDO ne naiden")
              THEN IF c3 = Dash THEN <<"MONDO ne naiden">>
                   ELSE c3 \o <<", ", "MONDO ne naiden">>
              ELSE c3
    IN  <<idx, RowResult(omim_code, mondo_code, disease_name, c4)>>

\* lines 317-425: what _process_single returns for the outcome of its POST
single_result(idx, reply) ==
    CASE reply.kind = "timeout" ->
            <<idx, RowResult(<<"Taimaut">>, <<"Taimaut">>, "-",
                             <<"Prevysheno vremya ozhidaniya">>)>>
      [] reply.kind = "exception" ->
            <<idx, RowResult(<<"Oshibka">>, <<"Oshibka">>, "-",
                             <<"Oshibka: ", reply.message>>)>>
      [] reply.kind = "response" /\ reply.status # "200" ->
            <<idx, RowResult(<<"Oshibka ", reply.status>>, <<"Oshibka ", reply.status>>,
                             "-", <<"Oshibka API">>)>>
      [] reply.kind = "response" /\ reply.status = "200" /\ reply.results = <<>> ->
            <<idx, RowResult(<<"Ne naideno">>, <<"Ne naideno">>, "-",
                             <<"Net rezul'tatov">>)>>
      [] OTHER -> found_result(idx, reply.results)

\* lines 285-290: the dict of the results the tasks returned, by row label
results_of(responses) ==
    [idx \in { responses[i].value[1] : i \in { j \in 1..Len(responses) :
                                                 responses[j].pc = "done" } } |->
        LET i == CHOOSE j \in 1..Len(responses) :
                    /\ responses[j].pc = "done"
                    /\ responses[j].value[1] = idx
                    /\ \A k \in (j + 1)..Len(responses) :
                          ~(responses[k].pc = "done" /\ responses[k].value[1] = idx)
        IN  responses[i].value[2]]

\* lines 427-454 ('Oshibka' and 'Oshibka obrabotki' are the defaults of get)
_add_results_to_dataframe(rows, batch) ==
    [i \in 1..Len(rows) |->
        IF rows[i].skip THEN RowResult(Dash, Dash, "-", Dash)
        ELSE IF rows[i].index \in DOMAIN batch THEN batch[rows[i].index]
        ELSE RowResult(<<"Oshibka">>, <<"Oshibka">>, "-", <<"Oshibka obrabotki">>)]

\* rows of a file: a missing diagnosis, ' - ', 'NULL', ' sindrom' without a
\* gene, 'Nan' with gene ' G1 '
DfRows ==
    { [diagnosis |-> NaNCell, gene |-> <<"G1">>],
      [diagnosis |-> <<" ", "-", " ">>, gene |-> NaNCell],
      [diagnosis |-> <<"NULL">>, gene |-> <<"G1">>],
      [diagnosis |-> <<" ", "sindrom">>, gene |-> NaNCell],
      [diagnosis |-> <<"Nan">>, gene |-> <<" ", "G1", " ">>] }

\* what the POST of a row can come to
ApiReplies ==
    { [kind |-> "response", status |-> "200",
       results |-> << ApiResult(Omim100, Mondo7, "Alpha", FALSE, <<>>) >>],
      [kind |-> "response", status |-> "200",
       results |-> << ApiResult(NoneId, NoneId, "Beta", TRUE, <<"Utochnit'">>),
                      ApiResult(Omim200, NoneId, "Gamma", FALSE, <<>>),
                      ApiResult(NoneId, Mondo9, "Delta", FALSE, <<>>) >>],
      [kind |-> "response", status |-> "200", results |-> <<>>],
      [kind |-> "response", status |-> "500", results |-> <<>>],
      [kind |-> "timeout"],
      [kind |-> "exception", message |-> "Cannot connect"] }

NoTask == [pc |-> "none", value |-> <<>>]

\* process_excel is called: file read, diagnosis column found (lines 157-188)
InitBatch ==
    /\ pc = "process_call"
    /\ \E n \in 0..MaxBatchRows : df \in [1..n -> DfRows]
    /\ max_concurrent \in 0..MaxConcurrent
    /\ semaphore = max_concurrent
    /\ rows_to_process = <<>>
    /\ single_tasks = <<>>
    /\ posted = <<>>
    /\ batch_results = <<>>
    /\ output = <<>>
    /\ call_args = NoArgs
    /\ call_result = NoReturn
    /\ RequestUnset
    /\ SharedUnset

\* line 191
PrepareRows ==
    /\ pc = "process_call"
    /\ rows_to_process' = _prepare_rows(df)
    /\ pc' = "batch_call"
    /\ UNCHANGED <<df, max_concurrent, semaphore, single_tasks, posted,
                   batch_results, output, call_args, call_result, request_vars, shared_vars>>

\* lines 270-283: a task for every row that is not skipped, handed to gather
Gather ==
    /\ pc = "batch_call"
    /\ single_tasks' = [i \in 1..Len(rows_to_process) |->
                          IF rows_to_process[i].skip THEN NoTask
                          ELSE [pc |-> "acquire", value |-> <<>>]]
    /\ posted' = [i \in 1..Len(rows_to_process) |-> 0]
    /\ pc' = "gather"
    /\ UNCHANGED <<df, max_concurrent, semaphore, rows_to_process, batch_results,
                   output, call_args, call_result, request_vars, shared_vars>>

\* the exit of "async with self.semaphore" (line 300), on a return from any
\* branch of lines 317-425
release(value, reply) == value + 1

\* lines 300-316: the task enters the semaphore and sends its POST
Acquire(i) ==
    /\ pc = "gather"
    /\ single_tasks[i].pc = "acquire"
    /\ semaphore > 0
    /\ semaphore' = semaphore - 1
    /\ single_tasks' = [single_tasks EXCEPT ![i].pc = "posted"]
    /\ posted' = [posted EXCEPT ![i] = @ + 1]
    /\ UNCHANGED <<pc, df, max_concurrent, rows_to_process, batch_results, output,
                   call_args, call_result, request_vars, shared_vars>>

\* lines 317-425: the POST comes to an end, the task returns and leaves the
\* semaphore
Complete(i, reply) ==
    /\ pc = "gather"
    /\ single_tasks[i].pc = "posted"
    /\ single_tasks' = [single_tasks EXCEPT
                          ![i] = [pc |-> "done",
                                  value |-> single_result(rows_to_process[i].index, reply)]]
    /\ semaphore' = release(semaphore, reply)
    /\ UNCHANGED <<pc, df, max_concurrent, rows_to_process, posted, batch_results,
                   output, call_args, call_result, request_vars, shared_vars>>

\* lines 283-295 and 198: gather returns when every task is done
Collect ==
    /\ pc = "gather"
    /\ \A i \in 1..Len(single_tasks) : single_tasks[i].pc \in {"none", "done"}
    /\ batch_results' = results_of(single_tasks)
    /\ output' = _add_results_to_dataframe(rows_to_process, results_of(single_tasks))
    /\ pc' = "saved"
    /\ UNCHANGED <<df, max_concurrent, semaphore, rows_to_process, single_tasks,
                   posted, call_args, call_result, request_vars, shared_vars>>

NextBatch ==
    \/ PrepareRows
    \/ Gather
    \/ \E i \in 1..Len(single_tasks) : Acquire(i)
    \/ \E i \in 1..Len(single_tasks) : \E reply \in ApiReplies : Complete(i, reply)
    \/ Collect

SpecBatch == InitBatch /\ [][NextBatch]_vars

\* the event loop runs every task that can run, and every POST ends: by its
\* reply, by an error or by the 60 s ClientTimeout
SpecBatchFair == SpecBatch /\ WF_vars(NextBatch)

\* the rows the claim counts as skipped: a missing cell, or a value that
\* stripped is empty or one of the listed placeholders
StatedSkipped(row) ==
    \/ row.diagnosis = NaNCell
    \/ Strip(row.diagnosis) \in
         { <<>>, <<"-">>, <<"en dash">>, <<"em dash">>, <<"nan">>, <<"NaN">>,
           <<"None">>, <<"null">>, <<"NULL">>, <<"<NULL>">>, <<"<null>">>,
           <<"N/A">>, <<"n/a">>, <<"#N/A">>, <<"#VALUE!">>, <<"<Pustaya stroka>">> }

\* C25: a row is marked skip exactly when its stripped diagnosis is empty or
\* a listed placeholder; a skipped row has no task, is never posted to the
\* API and gets '-' in all four output columns; a row that is not skipped is
\* never posted twice and has been posted exactly once when the batch is saved.
C25_SkippedRowsNeverSent ==
    /\ pc # "process_call" =>
          /\ Len(rows_to_process) = Len(df)
          /\ \A i \in 1..Len(df) : rows_to_process[i].skip <=> StatedSkipped(df[i])
    /\ pc \in {"gather", "saved"} =>
          \A i \in 1..Len(df) :
             /\ posted[i] <= 1
             /\ rows_to_process[i].skip => posted[i] = 0 /\ single_tasks[i] = NoTask
    /\ pc = "saved" =>
          \A i \in 1..Len(df) :
             IF rows_to_process[i].skip
             THEN output[i] = RowResult(Dash, Dash, "-", Dash)
             ELSE posted[i] = 1

\* a saved batch with a skipped 'NULL' row and a row that was posted
C25_Witness ==
    /\ pc = "saved"
    /\ \E i, j \in 1..Len(df) :
          /\ df[i].diagnosis = <<"NULL">> /\ rows_to_process[i].skip
          /\ output[i].omim_code = Dash
          /\ ~rows_to_process[j].skip /\ posted[j] = 1
          /\ output[j].omim_code = Omim100

\* the POSTs in flight
InFlight == { i \in 1..Len(single_tasks) : single_tasks[i].pc = "posted" }

\* C30: at every moment at most max_concurrent POSTs are in flight, the
\* semaphore is back at max_concurrent when no POST is in flight, and the
\* batch is eventually saved with every row processed.
C30_SlotsBoundedAndAllProcessed ==
    /\ [](/\ Cardinality(InFlight) <= max_concurrent
          /\ semaphore = max_concurrent - Cardinality(InFlight))
    /\ <>(pc = "saved")

-----------------------------------------------------------------------------
(* Requests served together over the objects built at start-up             *)
(*                                                                         *)
(* An object is a record in store[o][n], referred to as <<o, n>>: o = 0    *)
(* for the objects HybridOrchestrator.__init__ builds (the diseases of     *)
(* DataLoader, the OmimDisease records of GeneToOmimLookup, their gene     *)
(* lists, the dicts and the search index), o = r for the objects request r *)
(* creates. A DiseaseCandidate holds its gene list by reference.           *)

MaxRequests == 2              \* requests in progress together

\* the order in which a list holds the genes of the model
GeneOrder == <<"G1", "G1A", "G2", "G3">>
ListOf(S) == SelectSeq(GeneOrder, LAMBDA g : g \in S)

\* the distinct OmimDisease records of the gene index
OmimRecords ==
    UniqueByOmim(DiseasesOfGene(GenemapIndex, "G1") \o DiseasesOfGene(GenemapIndex, "G1A")
                   \o DiseasesOfGene(GenemapIndex, "G2") \o DiseasesOfGene(GenemapIndex, "G3"),
                 <<>>)

\* DataLoader.diseases (also BM25SearchEngine.diseases_cache, lines 41-42),
\* the gene lists of the diseases, the OmimDisease records and their gene
\* lists, then the dicts of the registry, of the gene index and the search index
StartupObjects ==
    [i \in 1..Len(diseases) |->
        [kind |-> "Disease", owner |-> "DiseaseRegistry", id |-> diseases[i].id,
         name |-> diseases[i].name, source |-> diseases[i].source,
         genes_at |-> <<0, Len(diseases) + i>>]]
    \o [i \in 1..Len(diseases) |->
        [kind |-> "list", owner |-> "DiseaseRegistry", items |-> ListOf(diseases[i].genes)]]
    \o [i \in 1..Len(OmimRecords) |->
        [kind |-> "OmimDisease", owner |-> "GeneIndex", omim_id |-> OmimRecords[i].omim_id,
         name |-> OmimRecords[i].name,
         genes_at |-> <<0, 2 * Len(diseases) + Len(OmimRecords) + i>>]]
    \o [i \in 1..Len(OmimRecords) |->
        [kind |-> "list", owner |-> "GeneIndex", items |-> ListOf(OmimRecords[i].genes)]]
    \o << [kind |-> "dicts", owner |-> "DiseaseRegistry", omim_to_mondo |-> omim_to_mondo,
           mondo_to_omim |-> mondo_to_omim, gene_to_diseases |-> loader_gene_to_diseases],
          [kind |-> "dicts", owner |-> "GeneIndex",
           gene_aliases |-> GenemapIndex.gene_aliases],
          [kind |-> "index", owner |-> "LexicalSearchIndex", disease_ids |-> disease_ids] >>

At(st, ref) == st[ref[1]][ref[2]]

\* a new object of request r; it is the last of store[r]
Alloc(st, r, object) == [st EXCEPT ![r] = Append(@, object)]
Newest(st, r) == <<r, Len(st[r])>>

\* DiseaseCandidate(..., genes=genes, ...): the model keeps the list it is
\* given or holds a copy of it, as its validation does
Construct(st, r, c, genes_ref, keeps) ==
    LET st1 == IF keeps THEN st
               ELSE Alloc(st, r, [kind |-> "list", owner |-> r,
                                  items |-> At(st, genes_ref).items])
    IN  Alloc(st1, r,
              [kind |-> "candidate", owner |-> r, omim_id |-> c.omim_id,
               mondo_id |-> c.mondo_id, name |-> c.name, score |-> c.score,
               source |-> c.source, gene_boosted |-> FALSE,
               genes_at |-> IF keeps THEN genes_ref ELSE Newest(st1, r)])

\* the candidate an object stands for
View(st, ref) ==
    LET o == At(st, ref)
    IN  DiseaseCandidate(o.omim_id, o.mondo_id, o.name, Range(At(st, o.genes_at).items),
                         o.score, o.source)

Views(st, refs) == [i \in 1..Len(refs) |-> View(st, refs[i])]

RECURSIVE ConstructAll(_, _, _, _, _, _)
\* one candidate after the other, each from its value and the list it is given
ConstructAll(st, r, values, genes_refs, keeps, out) ==
    IF values = <<>> THEN [st |-> st, out |-> out]
    ELSE LET st1 == Construct(st, r, values[1], genes_refs[1], keeps)
         IN  ConstructAll(st1, r, Tail(values), Tail(genes_refs), keeps,
                          Append(out, Newest(st1, r)))

\* list.sort(key=score, reverse=True) of a list of candidates
SortRefs(st, refs) ==
    LET sorted == SortByScoreDesc([i \in 1..Len(refs) |->
                                      [ref |-> refs[i], score |-> At(st, refs[i]).score]])
    IN  [i \in 1..Len(sorted) |-> sorted[i].ref]

\* _search_by_gene, lines 164-217: the OmimDisease (then the Disease) each
\* candidate takes its genes from
gene_sources(gene) ==
    LET omim_diseases == search_by_gene(gene)
        seen == {<<"OMIM:">> \o omim_diseases[i].omim_id : i \in 1..Len(omim_diseases)}
        ids  == IF Upper(gene) \in DOMAIN loader_gene_to_diseases
                THEN SelectSeq(loader_gene_to_diseases[Upper(gene)],
                               LAMBDA id : id \notin seen /\ id \in Range(disease_ids))
                ELSE <<>>
    IN  [i \in 1..Len(omim_diseases) |->
            StartupObjects[CHOOSE n \in 1..Len(StartupObjects) :
                              /\ StartupObjects[n].kind = "OmimDisease"
                              /\ StartupObjects[n].omim_id = omim_diseases[i].omim_id].genes_at]
        \o [i \in 1..Len(ids) |->
            StartupObjects[CHOOSE n \in 1..Len(diseases) : diseases[n].id = ids[i]].genes_at]

\* BM25SearchEngine.search, lines 128-178: the Disease each candidate takes
\* its genes from
text_sources(qs, top_k) ==
    LET sorted_indices == SortByScoreDesc(aggregate_scores(qs, <<>>))
        top == SubSeq(sorted_indices, 1, Min(top_k, Len(sorted_indices)))
    IN  [i \in 1..Len(top) |-> StartupObjects[top[i].idx].genes_at]

RECURSIVE BoostAll(_, _, _)
\* search_with_gene_boost, lines 197-207: candidate.score = boosted_score and
\* candidate.match_details["gene_boosted"] = True, on the candidate itself
BoostAll(st, refs, gene) ==
    IF refs = <<>> THEN st
    ELSE LET c   == View(st, refs[1])
             st1 == IF Upper(gene) \in {Upper(g) : g \in c.genes}
                    THEN [st EXCEPT ![refs[1][1]][refs[1][2]].score = boosted(c).score,
                                    ![refs[1][1]][refs[1][2]].gene_boosted = TRUE]
                    ELSE st
         IN  BoostAll(st1, Tail(refs), gene)

\* merge_candidates, line 286: existing.genes = list(set(existing.genes +
\* candidate.genes)), a new list bound to the attribute
union_genes_mut(st, r, existing, candidate) ==
    [st EXCEPT ![At(st, existing).genes_at[1]][At(st, existing).genes_at[2]].items =
                   @ \o At(st, At(st, candidate).genes_at).items]
union_genes(st, r, existing, candidate) ==
    LET st1 == Alloc(st, r, [kind |-> "list", owner |-> r,
                             items |-> ListOf(View(st, existing).genes
                                                 \cup View(st, candidate).genes)])
    IN  [st1 EXCEPT ![existing[1]][existing[2]].genes_at = Newest(st1, r)]

\* merge_candidates, lines 276-286: the writes to the first candidate of a key
reconcile(st, r, existing, candidate) ==
    LET e   == At(st, existing)
        c   == At(st, candidate)
        st1 == IF e.omim_id = NoneId /\ c.omim_id # NoneId
               THEN [st EXCEPT ![existing[1]][existing[2]].omim_id = c.omim_id] ELSE st
        st2 == IF e.mondo_id = NoneId /\ c.mondo_id # NoneId
               THEN [st1 EXCEPT ![existing[1]][existing[2]].mondo_id = c.mondo_id] ELSE st1
    IN  union_genes(st2, r, existing, candidate)

RECURSIVE group_refs(_, _, _, _)
\* merge_candidates, lines 260-286, on the objects: acc holds the keys in
\* insertion order, disease_info (an object per key) and disease_scores
group_refs(st, r, entries, acc) ==
    IF entries = <<>> THEN [st |-> st, acc |-> acc]
    ELSE LET method == entries[1][1]
             ref    == entries[1][2]
             c      == View(st, ref)
             key    == _get_disease_key(c)
             item   == [method |-> method, score |-> c.score,
                        weighted_score |-> weighted_score(c, method)]
             seen   == {k \in 1..Len(acc.keys) : acc.keys[k] = key}
         IN  IF seen = {}
             THEN group_refs(st, r, Tail(entries),
                     [keys |-> Append(acc.keys, key), info |-> Append(acc.info, ref),
                      scores |-> Append(acc.scores, <<item>>)])
             ELSE LET k == CHOOSE x \in seen : TRUE
                  IN  group_refs(reconcile(st, r, acc.info[k], ref), r, Tail(entries),
                         [acc EXCEPT !.scores[k] = Append(@, item)])

\* the <<method, candidate>> entries of search_results, in iteration order
RECURSIVE flat_refs(_)
flat_refs(found) ==
    IF found = <<>> THEN <<>>
    ELSE [i \in 1..Len(found[1][2]) |-> <<found[1][1], found[1][2][i]>>]
            \o flat_refs(Tail(found))

\* a search call that has not started
Handler(gene, qs, judge_parses) ==
    [stage |-> IF gene # NoGene THEN "search_by_gene" ELSE "search_by_text",
     gene |-> gene, queries |-> qs, judge_parses |-> judge_parses,
     found |-> <<>>, merged |-> <<>>, ranked |-> <<>>, conflicts |-> <<>>,
     final |-> <<>>, response |-> NoResponse]

InitShared ==
    /\ pc = "serving"
    /\ store = [o \in 0..MaxRequests |-> IF o = 0 THEN StartupObjects ELSE <<>>]
    /\ handlers \in [1..MaxRequests ->
                       { Handler(g, << <<"syndrome">>, <<"alpha">> >>, p) :
                           g \in {NoGene, "G1"}, p \in BOOLEAN }]
    /\ shares_lists \in BOOLEAN
    /\ call_args = NoArgs
    /\ call_result = NoReturn
    /\ RequestUnset
    /\ BatchUnset

\* _search_by_gene of request r
SharedSearchByGene(r) ==
    /\ handlers[r].stage = "search_by_gene"
    /\ LET built == ConstructAll(store, r, _search_by_gene(handlers[r].gene),
                                 gene_sources(handlers[r].gene), shares_lists, <<>>)
       IN  /\ store' = built.st
           /\ handlers' = [handlers EXCEPT ![r].stage = "search_by_text",
                                           ![r].found = << <<"gene_lookup", built.out>> >>]
    /\ UNCHANGED <<pc, shares_lists, call_args, call_result, request_vars, batch_vars>>

\* _search_by_text of request r, lines 237-252
SharedSearchByText(r) ==
    /\ handlers[r].stage = "search_by_text"
    /\ LET gene  == handlers[r].gene
           qs    == handlers[r].queries
           top_k == IF gene # NoGene THEN bm25_top_k * 2 ELSE bm25_top_k
           built == ConstructAll(store, r, bm25_search(qs, top_k),
                                 text_sources(qs, top_k), shares_lists, <<>>)
           st1   == IF gene # NoGene THEN BoostAll(built.st, built.out, gene) ELSE built.st
           refs  == IF gene # NoGene THEN SortRefs(st1, built.out) ELSE built.out
       IN  /\ store' = st1
           /\ handlers' = [handlers EXCEPT
                             ![r].stage = "merge",
                             ![r].found = @ \o << <<"bm25",
                                 SubSeq(refs, 1, Min(bm25_top_k, Len(refs)))>> >>]
    /\ UNCHANGED <<pc, shares_lists, call_args, call_result, request_vars, batch_vars>>

\* merge_candidates of request r
SharedMerge(r) ==
    /\ handlers[r].stage = "merge"
    /\ LET g == group_refs(store, r, flat_refs(handlers[r].found),
                           [keys |-> <<>>, info |-> <<>>, scores |-> <<>>])
           values == [k \in 1..Len(g.acc.keys) |->
                        LET e == At(g.st, g.acc.info[k])
                        IN  DiseaseCandidate(e.omim_id, e.mondo_id, e.name, {},
                                             final_score(g.acc.scores[k]), "combined")]
           built == ConstructAll(g.st, r, values,
                                 [k \in 1..Len(g.acc.keys) |-> At(g.st, g.acc.info[k]).genes_at],
                                 shares_lists, <<>>)
       IN  /\ store' = built.st
           /\ handlers' = [handlers EXCEPT
                             ![r].stage = IF built.out = <<>> THEN "done" ELSE "rerank",
                             ![r].merged = SortRefs(built.st, built.out)]
    /\ UNCHANGED <<pc, shares_lists, call_args, call_result, request_vars, batch_vars>>

\* rerank_candidates of request r: the judge's output is parsed, names the
\* first candidate with a score of 0.9 and a conflict on G1 of severity 0.5
\* (lines 348-357, 400-417), or it is not and the candidates pass through
SharedRerank(r) ==
    /\ handlers[r].stage = "rerank"
    /\ LET input == SubSeq(handlers[r].merged, 1, Min(judge_limit, Len(handlers[r].merged)))
           first == View(store, input[1])
           st1   == Construct(store, r, [first EXCEPT !.score = (9 * Scale) \div 10],
                              At(store, input[1]).genes_at, shares_lists)
       IN  IF handlers[r].judge_parses
           THEN /\ store' = st1
                /\ handlers' = [handlers EXCEPT
                                  ![r].stage = "conflicts",
                                  ![r].ranked = <<Newest(st1, r)>> \o Tail(input),
                                  ![r].conflicts =
                                      << [severity |-> Scale \div 2, found |-> "G1"] >>]
           ELSE /\ store' = store
                /\ handlers' = [handlers EXCEPT ![r].stage = "conflicts",
                                                ![r].ranked = input]
    /\ UNCHANGED <<pc, shares_lists, call_args, call_result, request_vars, batch_vars>>

RECURSIVE adjust_refs(_, _, _, _, _, _)
\* _apply_conflicts, lines 355-381: a new candidate for every penalized one
adjust_refs(st, r, refs, all, conflicts, out) ==
    IF refs = <<>> THEN [st |-> st, out |-> out]
    ELSE LET c == View(st, refs[1])
             key_conflicts ==
                 UNION {ConflictsOf(all[j], conflicts) :
                          j \in {x \in 1..Len(all) :
                                    _get_disease_key(all[x]) = _get_disease_key(c)}}
             st1 == IF key_conflicts = {} THEN st
                    ELSE Construct(st, r, penalized(c, conflicts, key_conflicts),
                                   At(st, refs[1]).genes_at, shares_lists)
         IN  adjust_refs(st1, r, Tail(refs), all, conflicts,
                         Append(out, IF key_conflicts = {} THEN refs[1]
                                     ELSE Newest(st1, r)))

\* _apply_conflicts of request r
SharedApplyConflicts(r) ==
    /\ handlers[r].stage = "conflicts"
    /\ LET h == handlers[r]
           adjusted == adjust_refs(store, r, h.ranked, Views(store, h.ranked),
                                   h.conflicts, <<>>)
       IN  IF h.conflicts = <<>>
           THEN /\ store' = store
                /\ handlers' = [handlers EXCEPT ![r].stage = "respond",
                                                ![r].final = h.ranked]
           ELSE /\ store' = adjusted.st
                /\ handlers' = [handlers EXCEPT
                                  ![r].stage = "respond",
                                  ![r].final = SortRefs(adjusted.st, adjusted.out)]
    /\ UNCHANGED <<pc, shares_lists, call_args, call_result, request_vars, batch_vars>>

\* _create_response of request r, lines 142-154
SharedRespond(r) ==
    /\ handlers[r].stage = "respond"
    /\ LET h == handlers[r]
           out == _create_response(
                     Views(store, SubSeq(h.final, 1, Min(MaxTopK, Len(h.final)))),
                     h.found, "reasoning", h.conflicts)
       IN  handlers' = [handlers EXCEPT
                          ![r].stage = "done",
                          ![r].response = IF out.raised THEN _create_error_response.value
                                          ELSE out.value]
    /\ UNCHANGED <<pc, store, shares_lists, call_args, call_result, request_vars,
                   batch_vars>>

NextShared ==
    \E r \in 1..MaxRequests :
       \/ SharedSearchByGene(r)
       \/ SharedSearchByText(r)
       \/ SharedMerge(r)
       \/ SharedRerank(r)
       \/ SharedApplyConflicts(r)
       \/ SharedRespond(r)

SpecShared == InitShared /\ [][NextShared]_vars

\* C28: whatever requests are handled and however their steps interleave,
\* every object built at start-up (the diseases and their gene lists, the
\* OmimDisease records and theirs, the dicts of the registry and of the gene
\* index, the search index) stays as it was built.
C28_StartupObjectsUnchanged == store[0] = StartupObjects

\* every request has ended; one of them boosted a candidate in place and
\* merged two candidates of one disease while the candidates shared the
\* lists they were constructed with
C28_Witness ==
    /\ shares_lists
    /\ \A r \in 1..MaxRequests : handlers[r].stage = "done"
    /\ \E r \in 1..MaxRequests :
          /\ \E n \in 1..Len(store[r]) :
                store[r][n].kind = "candidate" /\ store[r][n].gene_boosted
          /\ \E n \in 1..Len(store[r]) : store[r][n].kind = "list"
          /\ handlers[r].response # NoResponse

=============================================================================
